---- MODULE Spec2Model ----
(***************************************************************************)
(* Quiz lifecycle of the QuizAI server (src/src/index.js): generation of a *)
(* quiz from a lecture, delivery of a quiz to a student, scoring of a      *)
(* submission and explanation lookup.  Every route handler is a sequence   *)
(* of steps; each await on a database call or on the external model is a   *)
(* point where other requests may run.                                     *)
(***************************************************************************)
EXTENDS Integers, Sequences, FiniteSets, TLC

(***************************************************************************)
(* JavaScript values                                                       *)
(***************************************************************************)
\* undefined / null (a missing field, a findOne that found nothing)
Undefined == "<undefined>"
\* a value that is not a string (a number, an object) where text is expected
NonString == "<non-string>"

Labels == {"A", "B", "C", "D"}

\* String.prototype.trim on the strings of the model
Trim(s) == IF s = " " THEN "" ELSE s

\* JavaScript truthiness of a field value
Falsy(v) == v = Undefined \/ v = ""

\* An object-valued field of a reply is a set: empty when the field is
\* missing, else holding the one object.
TheObject(field) == CHOOSE o \in field : TRUE

(***************************************************************************)
(* Bounds                                                                  *)
(***************************************************************************)
\* questions in a reply of the external model (validation specification)
MaxRawQuestions == 1
\* answers in one submitted answer sequence (scoring specification)
MaxAnswers == 2

(***************************************************************************)
(* Validation of the model's reply (POST /generate_quiz/:id)               *)
(***************************************************************************)
QuestionText == "What?"
Options == [l \in Labels |-> "option " \o l]
CorrectText == "Because."
ExplText == "Wrong because."

\* the fallback explanation synthesized for a wrong option
FallbackExplanation(correct) ==
    "This option is incorrect. The correct answer is " \o correct
        \o ". Please review the lecture material for more details."

\* q.explanations[option] is missing or blank; .trim() of a non-string throws
NeedsFallback(e) == Falsy(e) \/ (e # NonString /\ Trim(e) = "")

MissingFields(q) ==
    \/ Falsy(q.question)
    \/ q.options = {}
    \/ Falsy(q.correct_answer)
    \/ q.explanations = {}
    \/ Falsy(q.correctAnswerExplanation)

\* the checks of one question, in the order of the code; "ok" when it passes
QuestionProblem(q) ==
    IF MissingFields(q) THEN "missing required fields"
    ELSE IF q.correct_answer \notin Labels THEN "invalid correct_answer"
    ELSE IF \E l \in Labels : /\ l # q.correct_answer
                              /\ TheObject(q.explanations)[l] = NonString
         THEN "trim is not a function"
    ELSE "ok"

\* explanations of a question that passed the checks, as the loop leaves them
\* (a key of q.explanations that is absent reads as Undefined)
FixedExplanationsNoClear(q) ==
    [l \in Labels |->
        IF l # q.correct_answer /\ NeedsFallback(TheObject(q.explanations)[l])
        THEN FallbackExplanation(q.correct_answer)
        ELSE TheObject(q.explanations)[l]]

FixedExplanations(q) ==
    [l \in Labels |->
        IF l = q.correct_answer THEN ""
        ELSE IF NeedsFallback(TheObject(q.explanations)[l])
        THEN FallbackExplanation(q.correct_answer)
        ELSE TheObject(q.explanations)[l]]

\* the question as stored in the quiz document
ValidateQuestion(q) ==
    [question |-> q.question,
     options |-> TheObject(q.options),
     correct_answer |-> q.correct_answer,
     explanations |-> FixedExplanations(q),
     correctAnswerExplanation |-> q.correctAnswerExplanation]

\* index (1-based) of the first question that throws, 0 when none does
FirstBadQuestion(qs) ==
    IF \E i \in 1..Len(qs) : QuestionProblem(qs[i]) # "ok"
    THEN CHOOSE i \in 1..Len(qs) :
            /\ QuestionProblem(qs[i]) # "ok"
            /\ \A j \in 1..(i - 1) : QuestionProblem(qs[j]) = "ok"
    ELSE 0

\* parse and validate the reply text: the try block of the handler
\* reply.parsed: what JSON.parse makes of the text ("unparseable": it throws;
\* "object": a value that is no array; "array": the array reply.json)
ValidateReply(reply) ==
    IF reply.parsed = "unparseable"
    THEN [ok |-> FALSE, error |-> "Unexpected token"]
    ELSE IF reply.parsed = "object"
    THEN [ok |-> FALSE, error |-> "Response is not an array"]
    ELSE IF Len(reply.json) = 0
    THEN [ok |-> FALSE, error |-> "No questions generated"]
    ELSE IF FirstBadQuestion(reply.json) # 0
    THEN [ok |-> FALSE,
          error |-> QuestionProblem(reply.json[FirstBadQuestion(reply.json)])]
    ELSE [ok |-> TRUE,
          questions |-> [i \in 1..Len(reply.json) |-> ValidateQuestion(reply.json[i])]]

(***************************************************************************)
(* Collections (MongoDB): each is a set of documents with a unique _id     *)
(***************************************************************************)
VARIABLES
    lectures,       \* lectureCollection
    quizzes,        \* quizCollection
    results,        \* quizResultCollection
    classes,        \* classCollection
    enrollments,    \* classStudentCollection
    nextId,         \* source of fresh _id values
    now,            \* Date.now(), in days
    req             \* the requests being handled, and their responses

vars == <<lectures, quizzes, results, classes, enrollments, nextId, now, req>>

\* findById: the set holding the document, empty when there is none
FindById(coll, id) == {d \in coll : d._id = id}

TheDoc(found) == CHOOSE d \in found : TRUE

\* findByIdAndUpdate with the changed document given by Change(_)
UpdateById(coll, id, Change(_)) ==
    {IF d._id = id THEN Change(d) ELSE d : d \in coll}

Teachers == {"t1", "t2"}
Students == {"s1", "s2"}
ClassIds == {"c1", "c2"}
NoClass == "<no class>"

TeacherSession(t) == [userId |-> t, userType |-> "teacher"]
StudentSession(s) == [userId |-> s, userType |-> "student"]

Idle == [kind |-> "idle", pc |-> "idle"]

(***************************************************************************)
(* Requests.  Two handlers run at a time: the smallest number that shows   *)
(* every interleaving of a pair of requests.  A slot whose response has    *)
(* been sent takes the next request.                                       *)
(***************************************************************************)
ReqIds == {1, 2}

(***************************************************************************)
(* POST /upload_lecture                                                    *)
(***************************************************************************)
MinTextLength == 50

\* lengths of the text extracted from an upload (0: nothing extracted)
TextLengths == {0, MinTextLength - 1, MinTextLength}

OwnedClasses(t) == {c._id : c \in {k \in classes : k.teacherId = t /\ k.isActive}}

\* the lecture document the upload creates
NewLecture(id, t, len, c) ==
    [_id |-> id,
     professorId |-> t,
     textLength |-> len,
     quizGenerated |-> FALSE,
     processingStatus |-> "completed",
     quizGenerationError |-> Undefined,
     classId |-> c]

(***************************************************************************)
(* POST /generate_quiz/:id                                                 *)
(***************************************************************************)
MsgLectureNotFound == "Lecture not found"
MsgGenerateDenied == "Access denied. You can only generate quizzes for your own lectures."
MsgQuizExists == "Quiz already generated for this lecture"
MsgTextTooShort == "Extracted text is too short or missing for quiz generation."
MsgParseFailed == "Failed to parse enhanced AI response. Please try again."
MsgQuotaExceeded == "API quota exceeded. Please try again later."
MsgGenerateFailed == "Failed to generate enhanced quiz. Please check your API key and try again."
MsgGenerated == "Enhanced quiz generated successfully"

Failure(status, message) == [status |-> status, success |-> FALSE, message |-> message]

\* a request arrives on a free slot (one never used, or one whose handler has
\* returned: with its response sent, or with its promise rejected)
Free(r) == req[r].pc \in {"idle", "done", "rejected"}

\* the handler's local variables; lecture: the fields of the document read at
\* the start that the handler uses later.  quizAtIssue observes the quizzes the
\* lecture had when the request arrived (the handler does not read it).
GenerateRequest(user, lectureId, found) ==
    [kind |-> "generate", pc |-> "findQuiz", user |-> user, lectureId |-> lectureId,
     lecture |-> {[textLength |-> d.textLength, classId |-> d.classId] : d \in found},
     quizAtIssue |-> {q._id : q \in {k \in quizzes : k.lectureId = lectureId}},
     generatedQuiz |-> <<>>, error |-> Undefined, modelCalled |-> FALSE,
     savedQuiz |-> {}]

\* the response is sent and the handler returns
GenerateDone(request, response) ==
    [kind |-> "generate", pc |-> "done", user |-> request.user,
     lectureId |-> request.lectureId, quizAtIssue |-> request.quizAtIssue,
     modelCalled |-> request.modelCalled, savedQuiz |-> request.savedQuiz,
     resp |-> response]

\* the ownership check of lines 1471 and 1767
OwnershipDenied(user, lecture) ==
    user.userType = "teacher" /\ lecture.professorId # user.userId

\* lectureCollection.findById, then the not-found and ownership checks
GenFindLecture(r, user, lectureId) ==
    /\ Free(r)
    /\ LET found == FindById(lectures, lectureId)
           started == GenerateRequest(user, lectureId, found)
       IN req' = [req EXCEPT ![r] =
                IF found = {}
                THEN GenerateDone(started, Failure(404, MsgLectureNotFound))
                ELSE IF OwnershipDenied(user, TheDoc(found))
                THEN GenerateDone(started, Failure(403, MsgGenerateDenied))
                ELSE started]
    /\ UNCHANGED <<lectures, quizzes, results, classes, enrollments, nextId, now>>

\* quizCollection.findOne({lectureId})
ExistingQuizNoCheck(lectureId) == {}

ExistingQuiz(lectureId) == {q \in quizzes : q.lectureId = lectureId}

GenFindQuiz(r) ==
    /\ req[r].kind = "generate" /\ req[r].pc = "findQuiz"
    /\ req' = [req EXCEPT ![r] =
            IF ExistingQuiz(req[r].lectureId) # {}
            THEN GenerateDone(req[r], Failure(400, MsgQuizExists))
            ELSE [req[r] EXCEPT !.pc = "setProcessing"]]
    /\ UNCHANGED <<lectures, quizzes, results, classes, enrollments, nextId, now>>

SetProcessing(d) == [d EXCEPT !.processingStatus = "processing"]

SetFailed(d, error) ==
    [d EXCEPT !.processingStatus = "failed", !.quizGenerated = FALSE,
              !.quizGenerationError = error]

SetCompleted(d) == [d EXCEPT !.quizGenerated = TRUE, !.processingStatus = "completed"]

\* !extractedText || extractedText.length < 50, on the lecture read at the start
TextTooShortNoCheck(lecture) == FALSE

TextTooShort(lecture) == lecture.textLength = 0 \/ lecture.textLength < MinTextLength

\* the update to processing; then the text check, and the model is called
GenSetProcessing(r) ==
    /\ req[r].kind = "generate" /\ req[r].pc = "setProcessing"
    /\ lectures' = UpdateById(lectures, req[r].lectureId, SetProcessing)
    /\ req' = [req EXCEPT ![r] =
            IF TextTooShort(TheDoc(req[r].lecture))
            THEN [req[r] EXCEPT !.pc = "failShort"]
            ELSE [req[r] EXCEPT !.pc = "awaitModel", !.modelCalled = TRUE]]
    /\ UNCHANGED <<quizzes, results, classes, enrollments, nextId, now>>

GenFailShort(r) ==
    /\ req[r].kind = "generate" /\ req[r].pc = "failShort"
    /\ LET Change(d) == SetFailed(d, "Text too short for quiz generation")
       IN lectures' = UpdateById(lectures, req[r].lectureId, Change)
    /\ req' = [req EXCEPT ![r] = GenerateDone(req[r], Failure(400, MsgTextTooShort))]
    /\ UNCHANGED <<quizzes, results, classes, enrollments, nextId, now>>

AwaitingModel(r) == req[r].kind = "generate" /\ req[r].pc = "awaitModel"

\* model.generateContent returns or throws; the reply is parsed and validated
GenModelReply(r, reply) ==
    /\ req[r].kind = "generate" /\ req[r].pc = "awaitModel"
    /\ req' = [req EXCEPT ![r] =
            IF reply.type = "error"
            THEN [req[r] EXCEPT !.pc = "failApi", !.error = reply.message]
            ELSE IF ValidateReply(reply).ok
            THEN [req[r] EXCEPT !.pc = "createQuiz",
                                !.generatedQuiz = ValidateReply(reply).questions]
            ELSE [req[r] EXCEPT !.pc = "failParse",
                                !.error = ValidateReply(reply).error]]
    /\ UNCHANGED <<lectures, quizzes, results, classes, enrollments, nextId, now>>

GenFailParse(r) ==
    /\ req[r].kind = "generate" /\ req[r].pc = "failParse"
    /\ LET Change(d) ==
            SetFailed(d, "Enhanced AI response parsing failed: " \o req[r].error)
       IN lectures' = UpdateById(lectures, req[r].lectureId, Change)
    /\ req' = [req EXCEPT ![r] = GenerateDone(req[r], Failure(500, MsgParseFailed))]
    /\ UNCHANGED <<quizzes, results, classes, enrollments, nextId, now>>

\* apiError.message.includes('quota') || apiError.message.includes('limit')
IsQuotaErrorNever(message) == FALSE

IsQuotaError(message) == message \in {"quota exceeded", "rate limit reached"}

GenFailApi(r) ==
    /\ req[r].kind = "generate" /\ req[r].pc = "failApi"
    /\ LET Change(d) == SetFailed(d, "Enhanced AI API Error: " \o req[r].error)
       IN lectures' = UpdateById(lectures, req[r].lectureId, Change)
    /\ req' = [req EXCEPT ![r] =
            IF IsQuotaError(req[r].error)
            THEN GenerateDone(req[r], Failure(429, MsgQuotaExceeded))
            ELSE GenerateDone(req[r], Failure(500, MsgGenerateFailed))]
    /\ UNCHANGED <<quizzes, results, classes, enrollments, nextId, now>>

\* the quiz document built from the validated questions and the lecture read
NewQuiz(id, r) ==
    [_id |-> id,
     lectureId |-> r.lectureId,
     questions |-> r.generatedQuiz,
     totalQuestions |-> Len(r.generatedQuiz),
     classId |-> TheDoc(r.lecture).classId]

GenCreateQuiz(r) ==
    /\ req[r].kind = "generate" /\ req[r].pc = "createQuiz"
    /\ quizzes' = quizzes \cup {NewQuiz(nextId, req[r])}
    /\ nextId' = nextId + 1
    /\ req' = [req EXCEPT ![r] =
            [req[r] EXCEPT !.pc = "setCompleted", !.savedQuiz = {nextId}]]
    /\ UNCHANGED <<lectures, results, classes, enrollments, now>>

GenSetCompleted(r) ==
    /\ req[r].kind = "generate" /\ req[r].pc = "setCompleted"
    /\ lectures' = UpdateById(lectures, req[r].lectureId, SetCompleted)
    /\ req' = [req EXCEPT ![r] =
            GenerateDone(req[r],
                [status |-> 200, success |-> TRUE, message |-> MsgGenerated,
                 quizId |-> TheDoc(req[r].savedQuiz),
                 totalQuestions |-> Len(req[r].generatedQuiz)])]
    /\ UNCHANGED <<quizzes, results, classes, enrollments, nextId, now>>

(***************************************************************************)
(* Replies of the external model                                           *)
(***************************************************************************)
RawQuestion(correct, explanations) ==
    [question |-> QuestionText, options |-> {Options}, correct_answer |-> correct,
     explanations |-> explanations, correctAnswerExplanation |-> CorrectText]

AllExplained == [l \in Labels |-> ExplText]

ArrayReply(json) == [type |-> "text", parsed |-> "array", json |-> json]

OtherReplies == {[type |-> "text", parsed |-> p, json |-> <<>>] :
                    p \in {"unparseable", "object"}}

\* the replies the generation specification draws from
FewReplies ==
    {[type |-> "error", message |-> "quota exceeded"],
     [type |-> "error", message |-> "fetch failed"],
     [type |-> "text", parsed |-> "unparseable", json |-> <<>>],
     ArrayReply(<<>>),
     ArrayReply(<<RawQuestion("E", {AllExplained})>>),
     ArrayReply(<<RawQuestion("B", {AllExplained}), RawQuestion("C", {AllExplained})>>)}

(***************************************************************************)
(* Generation: generate requests for one uploaded lecture, interleaved at  *)
(* their awaits                                                            *)
(***************************************************************************)
InitClasses ==
    {[_id |-> "c1", teacherId |-> "t1", name |-> "Algebra", isActive |-> TRUE],
     [_id |-> "c2", teacherId |-> "t2", name |-> "Biology", isActive |-> TRUE]}

Enrollment(s, c) == [studentId |-> s, classId |-> c, isActive |-> TRUE]

InitEnrollments == {Enrollment("s1", "c1"), Enrollment("s2", "c2")}

\* the _id of the uploaded lecture, and an _id that no lecture has
LectureId == "L1"
NoSuchLecture == "L0"

\* the state after teacher t1 has uploaded one lecture
InitGen ==
    /\ \E len \in TextLengths, c \in {NoClass, "c1"} :
            lectures = {NewLecture(LectureId, "t1", len, c)}
    /\ quizzes = {}
    /\ results = {}
    /\ classes = InitClasses
    /\ enrollments = InitEnrollments
    /\ nextId = 1
    /\ now = 0
    /\ req = [r \in ReqIds |-> Idle]

GenUsers == {TeacherSession(t) : t \in Teachers} \cup {StudentSession("s1")}

NextGen ==
    \/ \E r \in ReqIds, user \in GenUsers, l \in {LectureId, NoSuchLecture} :
            GenFindLecture(r, user, l)
    \/ \E r \in ReqIds : GenFindQuiz(r)
    \/ \E r \in ReqIds : GenSetProcessing(r)
    \/ \E r \in ReqIds : GenFailShort(r)
    \/ \E r \in ReqIds : AwaitingModel(r) /\ \E reply \in FewReplies : GenModelReply(r, reply)
    \/ \E r \in ReqIds : GenFailParse(r)
    \/ \E r \in ReqIds : GenFailApi(r)
    \/ \E r \in ReqIds : GenCreateQuiz(r)
    \/ \E r \in ReqIds : GenSetCompleted(r)

SpecGen == InitGen /\ [][NextGen]_vars

(***************************************************************************)
(* Claims about generation                                                 *)
(***************************************************************************)
IsGenerate(request) == request.kind = "generate"

\* the step is one of request r's own steps
StepOf(r) == req'[r] # req[r]

QuizIds == {q._id : q \in quizzes}

\* C6: a generate request that arrives when the lecture already has a quiz
\* (persisted by an earlier generate, and still stored) and that passes the
\* ownership check is answered with the conflict "Quiz already generated for
\* this lecture"; none of its steps changes the lectures (processingStatus,
\* quizGenerated) or the quizzes, and it never gets past the existence check.
C6_Step(r) ==
    (StepOf(r) /\ IsGenerate(req'[r]) /\ req'[r].quizAtIssue \cap QuizIds # {}) =>
        /\ lectures' = lectures
        /\ quizzes' = quizzes
        /\ req'[r].pc \in {"findQuiz", "done"}
        /\ req'[r].pc = "done" =>
            \/ req'[r].resp = Failure(400, MsgQuizExists)
            \/ /\ req'[r].resp = Failure(403, MsgGenerateDenied)
               /\ \E d \in FindById(lectures, req'[r].lectureId) :
                        OwnershipDenied(req'[r].user, d)

C6_SecondGenerateRejected == [][\A r \in ReqIds : C6_Step(r)]_vars

\* a second generate request, by the lecture's owner, has been answered with
\* the conflict
C6_Witness ==
    \E r \in ReqIds :
        /\ IsGenerate(req[r]) /\ req[r].pc = "done"
        /\ req[r].quizAtIssue # {}
        /\ req[r].user = TeacherSession("t1")
        /\ req[r].resp = Failure(400, MsgQuizExists)
        /\ \E d \in lectures : d.quizGenerated /\ d.processingStatus = "completed"

\* C7: in every reachable state a lecture has at most one quiz.
C7_AtMostOneQuizPerLecture ==
    \A d \in lectures : Cardinality(ExistingQuiz(d._id)) <= 1

\* C9: a generate request (by a requester the ownership check lets through)
\* for a lecture whose text is missing or shorter than 50 characters is
\* answered 400 "text too short"; the step that answers leaves the lecture
\* failed; the request has not called the model and has created no quiz, and
\* the lecture never has a quiz.
HasShortText(d) == d.textLength \in 0..(MinTextLength - 1)

ShortLecture(id) == \E d \in FindById(lectures, id) : HasShortText(d)

C9_State ==
    /\ \A r \in ReqIds :
        (IsGenerate(req[r]) /\ ShortLecture(req[r].lectureId)) =>
            /\ ~req[r].modelCalled
            /\ req[r].savedQuiz = {}
            /\ req[r].pc = "done" =>
                \/ req[r].resp = Failure(400, MsgTextTooShort)
                \/ /\ req[r].resp = Failure(403, MsgGenerateDenied)
                   /\ \E d \in FindById(lectures, req[r].lectureId) :
                            OwnershipDenied(req[r].user, d)
    /\ \A d \in lectures : HasShortText(d) => ExistingQuiz(d._id) = {}

C9_Step(r) ==
    (StepOf(r) /\ IsGenerate(req'[r]) /\ req'[r].pc = "done"
        /\ req'[r].resp = Failure(400, MsgTextTooShort)) =>
        /\ \A d \in FindById(lectures', req'[r].lectureId) :
                d.processingStatus = "failed" /\ ~d.quizGenerated
        /\ quizzes' = quizzes

C9_ShortTextFails == [](C9_State) /\ [][\A r \in ReqIds : C9_Step(r)]_vars

C9_Witness ==
    \E r \in ReqIds :
        /\ IsGenerate(req[r]) /\ req[r].pc = "done"
        /\ req[r].resp = Failure(400, MsgTextTooShort)
        /\ \E d \in FindById(lectures, req[r].lectureId) :
                d.textLength = MinTextLength - 1 /\ d.processingStatus = "failed"

(***************************************************************************)
(* Validation: one generate request at a time, over every reply of up to   *)
(* MaxRawQuestions questions whose explanations are missing, blank or      *)
(* given, label by label                                                   *)
(***************************************************************************)
\* q.explanations as the model may return it: per label a text, a blank, or
\* nothing (Undefined: the key is absent)
ExplanationMaps ==
    [Labels -> {Undefined, " ", ExplText}] \cup [Labels -> {"", ExplText}]

WellFormedQuestions ==
    {RawQuestion(c, {e}) : c \in Labels, e \in ExplanationMaps}

MalformedQuestions ==
    {[RawQuestion("A", {AllExplained}) EXCEPT !.question = ""],
     [RawQuestion("A", {AllExplained}) EXCEPT !.options = {}],
     [RawQuestion("A", {AllExplained}) EXCEPT !.correct_answer = Undefined],
     [RawQuestion("A", {AllExplained}) EXCEPT !.correct_answer = "E"],
     [RawQuestion("A", {AllExplained}) EXCEPT !.explanations = {}],
     [RawQuestion("A", {AllExplained}) EXCEPT !.correctAnswerExplanation = Undefined],
     RawQuestion("A", {[AllExplained EXCEPT !["B"] = NonString]}),
     RawQuestion("A", {[AllExplained EXCEPT !["A"] = NonString]})}

RawQuestions == WellFormedQuestions \cup MalformedQuestions

RECURSIVE SeqsUpTo(_, _)
SeqsUpTo(S, n) ==
    IF n = 0 THEN {<<>>}
    ELSE SeqsUpTo(S, n - 1) \cup
         {Append(q, x) : q \in {p \in SeqsUpTo(S, n - 1) : Len(p) = n - 1}, x \in S}

ManyReplies ==
    OtherReplies \cup {ArrayReply(json) : json \in SeqsUpTo(RawQuestions, MaxRawQuestions)}

InitValidate ==
    /\ lectures = {NewLecture(LectureId, "t1", MinTextLength, NoClass)}
    /\ quizzes = {}
    /\ results = {}
    /\ classes = InitClasses
    /\ enrollments = InitEnrollments
    /\ nextId = 1
    /\ now = 0
    /\ req = [r \in ReqIds |-> Idle]

NextValidate ==
    \/ GenFindLecture(1, TeacherSession("t1"), LectureId)
    \/ GenFindQuiz(1)
    \/ GenSetProcessing(1)
    \/ AwaitingModel(1) /\ \E reply \in ManyReplies : GenModelReply(1, reply)
    \/ GenFailParse(1)
    \/ GenCreateQuiz(1)
    \/ GenSetCompleted(1)

SpecValidate == InitValidate /\ [][NextValidate]_vars

QuestionsOf(quiz) == {quiz.questions[i] : i \in 1..Len(quiz.questions)}

\* C8: in every persisted quiz, every question has a non-blank explanation
\* for each label other than correct_answer, and the empty string for the
\* correct_answer label, whatever the model returned for each label.
C8_ExplanationsComplete ==
    \A quiz \in quizzes : \A q \in QuestionsOf(quiz) :
        /\ q.correct_answer \in Labels
        /\ DOMAIN q.explanations = Labels
        /\ q.explanations[q.correct_answer] = ""
        /\ \A l \in Labels \ {q.correct_answer} :
                /\ q.explanations[l] \notin {Undefined, NonString}
                /\ Trim(q.explanations[l]) # ""

\* a quiz is persisted in which one wrong label got the fallback, another
\* kept the model's text
C8_Witness ==
    \E quiz \in quizzes : \E q \in QuestionsOf(quiz) :
        \E l, m \in Labels \ {q.correct_answer} :
            /\ q.explanations[l] = FallbackExplanation(q.correct_answer)
            /\ q.explanations[m] = ExplText

(***************************************************************************)
(* Scoring (POST /api/quiz/submit/:quizId, lines 2021-2054)                *)
(***************************************************************************)
\* quiz.questions[i] exists (JavaScript indexes from 0)
ValidIndex(quiz, i) == i \in 0..(Len(quiz.questions) - 1)

QuestionAt(quiz, i) == quiz.questions[i + 1]

IsCorrectAny(quiz, a) == TRUE

IsCorrect(quiz, a) == a.selectedOption = QuestionAt(quiz, a.questionIndex).correct_answer

DetailedAnswer(quiz, a) ==
    [questionIndex |-> a.questionIndex,
     selectedOption |-> a.selectedOption,
     correctOption |-> QuestionAt(quiz, a.questionIndex).correct_answer,
     isCorrect |-> IsCorrect(quiz, a)]

QuestionDetail(quiz, a) ==
    [questionIndex |-> a.questionIndex,
     questionText |-> QuestionAt(quiz, a.questionIndex).question,
     options |-> QuestionAt(quiz, a.questionIndex).options,
     studentAnswer |-> a.selectedOption,
     correctAnswer |-> QuestionAt(quiz, a.questionIndex).correct_answer,
     isCorrect |-> IsCorrect(quiz, a)]

\* the forEach over studentAnswers, from answer n on
RECURSIVE ScoreFrom(_, _, _, _)
ScoreFrom(quiz, answers, n, acc) ==
    IF n > Len(answers) THEN acc
    ELSE IF ~ValidIndex(quiz, answers[n].questionIndex)
    THEN ScoreFrom(quiz, answers, n + 1, acc)
    ELSE ScoreFrom(quiz, answers, n + 1,
            [score |-> acc.score + (IF IsCorrect(quiz, answers[n]) THEN 1 ELSE 0),
             detailedAnswers |->
                Append(acc.detailedAnswers, DetailedAnswer(quiz, answers[n])),
             questionDetails |->
                Append(acc.questionDetails, QuestionDetail(quiz, answers[n]))])

ScoreAnswers(quiz, answers) ==
    ScoreFrom(quiz, answers, 1,
              [score |-> 0, detailedAnswers |-> <<>>, questionDetails |-> <<>>])

\* (score / totalQuestions) * 100, or 0: the number as the fraction <<n, d>>
Percentage(score, totalQuestions) ==
    IF totalQuestions > 0 THEN <<score * 100, totalQuestions>> ELSE <<0, 1>>

NewQuizResultOfAnswered(id, quiz, studentId, answers, date) ==
    [_id |-> id,
     quizId |-> quiz._id,
     lectureId |-> quiz.lectureId,
     classId |-> quiz.classId,
     studentId |-> studentId,
     score |-> ScoreAnswers(quiz, answers).score,
     totalQuestions |-> Len(answers),
     percentage |-> Percentage(ScoreAnswers(quiz, answers).score, Len(answers)),
     submissionDate |-> date,
     answers |-> ScoreAnswers(quiz, answers).detailedAnswers]

NewQuizResult(id, quiz, studentId, answers, date) ==
    [_id |-> id,
     quizId |-> quiz._id,
     lectureId |-> quiz.lectureId,
     classId |-> quiz.classId,
     studentId |-> studentId,
     score |-> ScoreAnswers(quiz, answers).score,
     totalQuestions |-> quiz.totalQuestions,
     percentage |-> Percentage(ScoreAnswers(quiz, answers).score, quiz.totalQuestions),
     submissionDate |-> date,
     answers |-> ScoreAnswers(quiz, answers).detailedAnswers]

(***************************************************************************)
(* POST /api/quiz/submit/:quizId                                           *)
(***************************************************************************)
MsgStudentsOnlySubmit == "Access denied. Only students can submit quizzes."
MsgQuizNotFoundScoring == "Quiz not found for scoring."
MsgNotEnrolledSubmit == "You are not enrolled in the class for this quiz."
MsgAlreadySubmitted == "You have already submitted this quiz."
MsgSubmitted == "Quiz submitted and scored successfully!"

\* classStudentCollection.findOne({studentId, classId, isActive: true})
ActiveEnrollmentEver(studentId, classId) ==
    {e \in enrollments : e.studentId = studentId /\ e.classId = classId}

ActiveEnrollment(studentId, classId) ==
    {e \in enrollments : e.studentId = studentId /\ e.classId = classId /\ e.isActive}

\* quizResultCollection.findOne({quizId, studentId})
ExistingResultNoCheck(quizId, studentId) == {}

ExistingResult(quizId, studentId) ==
    {x \in results : x.quizId = quizId /\ x.studentId = studentId}

\* the results the pair has when a request arrives: an observation that no
\* handler reads
ResultsAtIssue(user, quizId) ==
    {x._id : x \in {y \in results : y.quizId = quizId /\ y.studentId = user.userId}}

\* the handler's local variables, and the observation resultAtIssue
SubmitRequest(user, quizId, answers, found) ==
    [kind |-> "submit", pc |-> "findEnrollment", user |-> user, quizId |-> quizId,
     answers |-> answers, quiz |-> found,
     resultAtIssue |-> ResultsAtIssue(user, quizId),
     savedResult |-> {}]

SubmitDone(request, response) ==
    [kind |-> "submit", pc |-> "done", user |-> request.user,
     quizId |-> request.quizId, answers |-> request.answers,
     resultAtIssue |-> request.resultAtIssue, savedResult |-> request.savedResult,
     resp |-> response]

IsSubmit(request) == request.kind = "submit"

\* the role check; quizCollection.findById(quizId).lean()
SubmitFindQuiz(r, user, quizId, answers) ==
    /\ Free(r)
    /\ LET found == FindById(quizzes, quizId)
           started == SubmitRequest(user, quizId, answers, found)
       IN req' = [req EXCEPT ![r] =
                IF user.userType # "student"
                THEN SubmitDone(started, Failure(403, MsgStudentsOnlySubmit))
                ELSE IF found = {}
                THEN SubmitDone(started, Failure(404, MsgQuizNotFoundScoring))
                ELSE IF TheDoc(found).classId # NoClass
                THEN started
                ELSE [started EXCEPT !.pc = "findResult"]]
    /\ UNCHANGED <<lectures, quizzes, results, classes, enrollments, nextId, now>>

SubmitFindEnrollment(r) ==
    /\ IsSubmit(req[r]) /\ req[r].pc = "findEnrollment"
    /\ req' = [req EXCEPT ![r] =
            IF ActiveEnrollment(req[r].user.userId, TheDoc(req[r].quiz).classId) = {}
            THEN SubmitDone(req[r], Failure(403, MsgNotEnrolledSubmit))
            ELSE [req[r] EXCEPT !.pc = "findResult"]]
    /\ UNCHANGED <<lectures, quizzes, results, classes, enrollments, nextId, now>>

\* the duplicate check; the answers are scored before the next await
SubmitFindResult(r) ==
    /\ IsSubmit(req[r]) /\ req[r].pc = "findResult"
    /\ req' = [req EXCEPT ![r] =
            IF ExistingResult(req[r].quizId, req[r].user.userId) # {}
            THEN SubmitDone(req[r], Failure(400, MsgAlreadySubmitted))
            ELSE [req[r] EXCEPT !.pc = "createResult"]]
    /\ UNCHANGED <<lectures, quizzes, results, classes, enrollments, nextId, now>>

SubmitResponse(quiz, answers, id) ==
    [status |-> 200, success |-> TRUE, message |-> MsgSubmitted,
     score |-> ScoreAnswers(quiz, answers).score,
     totalQuestions |-> quiz.totalQuestions,
     percentage |-> Percentage(ScoreAnswers(quiz, answers).score, quiz.totalQuestions),
     quizResultId |-> id,
     questionDetails |-> ScoreAnswers(quiz, answers).questionDetails]

\* quizResultCollection.create; a quiz without a class is answered at once
SubmitCreateResult(r) ==
    /\ IsSubmit(req[r]) /\ req[r].pc = "createResult"
    /\ results' = results \cup
            {NewQuizResult(nextId, TheDoc(req[r].quiz), req[r].user.userId,
                           req[r].answers, now)}
    /\ nextId' = nextId + 1
    /\ req' = [req EXCEPT ![r] =
            IF TheDoc(req[r].quiz).classId # NoClass
            THEN [req[r] EXCEPT !.pc = "findClass", !.savedResult = {nextId}]
            ELSE SubmitDone([req[r] EXCEPT !.savedResult = {nextId}],
                            SubmitResponse(TheDoc(req[r].quiz), req[r].answers, nextId))]
    /\ UNCHANGED <<lectures, quizzes, classes, enrollments, now>>

\* classCollection.findById for the response's className; then the response
SubmitFindClass(r) ==
    /\ IsSubmit(req[r]) /\ req[r].pc = "findClass"
    /\ req' = [req EXCEPT ![r] =
            SubmitDone(req[r],
                SubmitResponse(TheDoc(req[r].quiz), req[r].answers,
                               TheDoc(req[r].savedResult)))]
    /\ UNCHANGED <<lectures, quizzes, results, classes, enrollments, nextId, now>>

(***************************************************************************)
(* GET /take_quiz/:quizId                                                  *)
(***************************************************************************)
MsgQuizNotFoundPage == "Quiz not found."
MsgNotEnrolledPage == "You are not enrolled in this class."

Redirect(location) == [status |-> 302, location |-> location]

\* classId || quiz.classId
TargetClass(classIdParam, quizClassId) ==
    IF classIdParam # NoClass THEN classIdParam ELSE quizClassId

TakeRequest(user, quizId, classIdParam, found) ==
    [kind |-> "take", pc |-> "findEnrollment", user |-> user, quizId |-> quizId,
     classId |-> classIdParam,
     quiz |-> {[totalQuestions |-> q.totalQuestions, classId |-> q.classId] : q \in found},
     resultAtIssue |-> ResultsAtIssue(user, quizId)]

TakeDone(request, response) ==
    [kind |-> "take", pc |-> "done", user |-> request.user, quizId |-> request.quizId,
     classId |-> request.classId, resultAtIssue |-> request.resultAtIssue,
     resp |-> response]

IsTake(request) == request.kind = "take"

\* the page: its data are the quiz's title, question count and class
TakePage(request) ==
    [status |-> 200, view |-> "takeQuiz", quiz |-> TheDoc(request.quiz),
     classContext |-> request.classId # NoClass]

TakeFindQuiz(r, user, quizId, classIdParam) ==
    /\ Free(r)
    /\ LET found == FindById(quizzes, quizId)
           started == TakeRequest(user, quizId, classIdParam, found)
       IN req' = [req EXCEPT ![r] =
                IF user.userType # "student"
                THEN TakeDone(started, Redirect("/login"))
                ELSE IF found = {}
                THEN TakeDone(started, [status |-> 404, text |-> MsgQuizNotFoundPage])
                ELSE IF classIdParam # NoClass \/ TheDoc(found).classId # NoClass
                THEN started
                ELSE [started EXCEPT !.pc = "findResult"]]
    /\ UNCHANGED <<lectures, quizzes, results, classes, enrollments, nextId, now>>

TakeFindEnrollment(r) ==
    /\ IsTake(req[r]) /\ req[r].pc = "findEnrollment"
    /\ req' = [req EXCEPT ![r] =
            IF ActiveEnrollment(req[r].user.userId,
                    TargetClass(req[r].classId, TheDoc(req[r].quiz).classId)) = {}
            THEN TakeDone(req[r], [status |-> 403, text |-> MsgNotEnrolledPage])
            ELSE [req[r] EXCEPT !.pc = "findResult"]]
    /\ UNCHANGED <<lectures, quizzes, results, classes, enrollments, nextId, now>>

TakeFindResult(r) ==
    /\ IsTake(req[r]) /\ req[r].pc = "findResult"
    /\ req' = [req EXCEPT ![r] =
            IF ExistingResult(req[r].quizId, req[r].user.userId) # {}
            THEN TakeDone(req[r], Redirect("/quiz-results?alreadyTaken=true"))
            ELSE IF TheDoc(req[r].quiz).classId # NoClass
            THEN [req[r] EXCEPT !.pc = "findClass"]
            ELSE TakeDone(req[r], TakePage(req[r]))]
    /\ UNCHANGED <<lectures, quizzes, results, classes, enrollments, nextId, now>>

TakeFindClass(r) ==
    /\ IsTake(req[r]) /\ req[r].pc = "findClass"
    /\ req' = [req EXCEPT ![r] = TakeDone(req[r], TakePage(req[r]))]
    /\ UNCHANGED <<lectures, quizzes, results, classes, enrollments, nextId, now>>

(***************************************************************************)
(* GET /api/quiz/:quizId                                                   *)
(***************************************************************************)
MsgStudentsOnlyQuestions == "Access denied. Only students can access quiz questions."

\* quiz.questions.map(q => ({question: q.question, options: q.options}))
QuestionsForClientWhole(quiz) == quiz.questions

QuestionsForClient(quiz) ==
    [i \in 1..Len(quiz.questions) |->
        [question |-> quiz.questions[i].question,
         options |-> quiz.questions[i].options]]

IsGetQuiz(request) == request.kind = "getQuiz"

\* the handler has one await: the findById
GetQuiz(r, user, quizId) ==
    /\ Free(r)
    /\ LET found == FindById(quizzes, quizId)
           Done(response) ==
                [kind |-> "getQuiz", pc |-> "done", user |-> user, quizId |-> quizId,
                 resultAtIssue |-> ResultsAtIssue(user, quizId), resp |-> response]
       IN req' = [req EXCEPT ![r] =
                IF user.userType # "student"
                THEN Done(Failure(403, MsgStudentsOnlyQuestions))
                ELSE IF found = {}
                THEN Done(Failure(404, MsgQuizNotFoundPage))
                ELSE Done([status |-> 200, success |-> TRUE,
                           quiz |-> [_id |-> TheDoc(found)._id,
                                     totalQuestions |-> TheDoc(found).totalQuestions,
                                     questions |-> QuestionsForClient(TheDoc(found))]])]
    /\ UNCHANGED <<lectures, quizzes, results, classes, enrollments, nextId, now>>

(***************************************************************************)
(* POST /api/explanation/get                                               *)
(***************************************************************************)
MsgStudentsOnly == "Access denied. Students only."
MsgQuestionNotFound == "Question not found."

\* question.explanations[label]: Undefined when the object has no such key
ExplanationFor(question, label) ==
    IF label \in DOMAIN question.explanations
    THEN question.explanations[label] ELSE Undefined

NonBlank(text) == ~Falsy(text) /\ Trim(text) # ""

\* the explanation text of lines 3341-3360
ExplanationTextStoredOnly(question, wrongAnswer) == ExplanationFor(question, wrongAnswer)

ExplanationText(question, wrongAnswer) ==
    IF NonBlank(ExplanationFor(question, wrongAnswer))
    THEN IF NonBlank(question.correctAnswerExplanation)
         THEN ExplanationFor(question, wrongAnswer) \o "\n\nWhy "
                \o question.correct_answer \o " is correct: "
                \o question.correctAnswerExplanation
         ELSE ExplanationFor(question, wrongAnswer)
    ELSE IF NonBlank(question.correctAnswerExplanation)
         THEN "The correct answer is " \o question.correct_answer \o ") "
                \o question.options[question.correct_answer] \o ".\n\n"
                \o question.correctAnswerExplanation
         ELSE "The correct answer is " \o question.correct_answer \o ") "
                \o question.options[question.correct_answer]
                \o ". Please review the lecture material for detailed understanding."

IsExplain(request) == request.kind = "explain"

\* the handler has one await: the findById
GetExplanation(r, user, quizId, questionIndex, wrongAnswer) ==
    /\ Free(r)
    /\ LET found == FindById(quizzes, quizId)
           Done(response) ==
                [kind |-> "explain", pc |-> "done", user |-> user, quizId |-> quizId,
                 questionIndex |-> questionIndex, wrongAnswer |-> wrongAnswer,
                 resp |-> response]
       IN req' = [req EXCEPT ![r] =
                IF user.userType # "student"
                THEN Done(Failure(403, MsgStudentsOnly))
                ELSE IF found = {}
                THEN Done(Failure(404, MsgQuizNotFoundPage))
                ELSE IF ~ValidIndex(TheDoc(found), questionIndex)
                THEN Done(Failure(404, MsgQuestionNotFound))
                ELSE LET question == QuestionAt(TheDoc(found), questionIndex)
                     IN Done([status |-> 200, success |-> TRUE,
                              explanation |-> ExplanationText(question, wrongAnswer),
                              explanationType |->
                                IF NonBlank(ExplanationFor(question, wrongAnswer))
                                THEN "detailed" ELSE "basic",
                              questionDetails |->
                                [correctAnswer |-> question.correct_answer,
                                 correctOption |->
                                    question.options[question.correct_answer]]])]
    /\ UNCHANGED <<lectures, quizzes, results, classes, enrollments, nextId, now>>

(***************************************************************************)
(* GET /api/quiz/:quizId/explanations-status                               *)
(***************************************************************************)
QuestionsWithExplanations(quiz) ==
    {i \in 1..Len(quiz.questions) :
        \E l \in DOMAIN quiz.questions[i].explanations :
            NonBlank(quiz.questions[i].explanations[l])}

\* any logged-in user; one await
GetExplanationsStatus(r, user, quizId) ==
    /\ Free(r)
    /\ LET found == FindById(quizzes, quizId)
           Done(response) ==
                [kind |-> "status", pc |-> "done", user |-> user, quizId |-> quizId,
                 resp |-> response]
       IN req' = [req EXCEPT ![r] =
                IF found = {}
                THEN Done(Failure(404, MsgQuizNotFoundPage))
                ELSE Done([status |-> 200, success |-> TRUE,
                           hasEnhancedExplanations |->
                                QuestionsWithExplanations(TheDoc(found)) # {},
                           totalQuestions |-> Len(TheDoc(found).questions),
                           questionsWithExplanations |->
                                Cardinality(QuestionsWithExplanations(TheDoc(found)))])]
    /\ UNCHANGED <<lectures, quizzes, results, classes, enrollments, nextId, now>>

(***************************************************************************)
(* GET /debug/quiz/:quizId and GET /debug/quiz/:quizId/question/:index     *)
(***************************************************************************)
\* any logged-in user; one await.  The first question's explanations object
\* is in the response.
DebugQuiz(r, user, quizId) ==
    /\ Free(r)
    /\ LET found == FindById(quizzes, quizId)
           Done(response) ==
                [kind |-> "debugQuiz", pc |-> "done", user |-> user, quizId |-> quizId,
                 resp |-> response]
       IN req' = [req EXCEPT ![r] =
                IF found = {}
                THEN Done([status |-> 200, error |-> "Quiz not found"])
                ELSE Done([status |-> 200, success |-> TRUE,
                           totalQuestions |-> Len(TheDoc(found).questions),
                           explanationsData |-> TheDoc(found).questions[1].explanations])]
    /\ UNCHANGED <<lectures, quizzes, results, classes, enrollments, nextId, now>>

\* any logged-in user; one await
DebugQuestion(r, user, quizId, questionIndex) ==
    /\ Free(r)
    /\ LET found == FindById(quizzes, quizId)
           Done(response) ==
                [kind |-> "debugQuestion", pc |-> "done", user |-> user,
                 quizId |-> quizId, questionIndex |-> questionIndex, resp |-> response]
       IN req' = [req EXCEPT ![r] =
                IF found = {}
                THEN Done([status |-> 200, error |-> "Quiz not found"])
                ELSE IF ~ValidIndex(TheDoc(found), questionIndex)
                THEN Done([status |-> 200, error |-> "Question not found"])
                ELSE LET question == QuestionAt(TheDoc(found), questionIndex)
                     IN Done([status |-> 200, success |-> TRUE,
                              questionDebug |->
                                [questionText |-> question.question,
                                 options |-> question.options,
                                 correctAnswer |-> question.correct_answer,
                                 explanations |-> question.explanations,
                                 correctExplanation |->
                                    question.correctAnswerExplanation]])]
    /\ UNCHANGED <<lectures, quizzes, results, classes, enrollments, nextId, now>>

(***************************************************************************)
(* DELETE /api/classes/:classId/students/:studentId                        *)
(***************************************************************************)
\* the class check and the findOneAndUpdate that deactivates the enrollment
RemoveStudent(t, c, s) ==
    /\ c \in OwnedClasses(t)
    /\ ActiveEnrollment(s, c) # {}
    /\ enrollments' = {IF e \in ActiveEnrollment(s, c)
                       THEN [e EXCEPT !.isActive = FALSE] ELSE e : e \in enrollments}
    /\ UNCHANGED <<lectures, quizzes, results, classes, nextId, now, req>>

(***************************************************************************)
(* cleanupOldQuizResults, run at startup and every 24 hours                *)
(***************************************************************************)
RetentionDays == 15
\* the last day of the clock
MaxDay == 16

\* submissionDate < Date.now() - 15 days
Expired(x) == x.submissionDate < now - RetentionDays

CleanupOldQuizResults ==
    /\ \E x \in results : Expired(x)
    /\ results' = {x \in results : ~Expired(x)}
    /\ UNCHANGED <<lectures, quizzes, classes, enrollments, nextId, now, req>>

\* time passes: by the retention period, or by one day more
ClockSteps == {RetentionDays, RetentionDays + 1}

AdvanceClock(days) ==
    /\ now + days <= MaxDay
    /\ now' = now + days
    /\ UNCHANGED <<lectures, quizzes, results, classes, enrollments, nextId, req>>

(***************************************************************************)
(* Delivery and scoring of one generated quiz                              *)
(***************************************************************************)
QuizId == "Q1"
NoSuchQuiz == "Q0"

GeneratedQuestions ==
    ValidateReply(ArrayReply(<<RawQuestion("B", {AllExplained}),
                               RawQuestion("C", {AllExplained})>>)).questions

\* the quiz that a successful generate request for the lecture persists
GeneratedQuiz(c) ==
    [_id |-> QuizId, lectureId |-> LectureId, questions |-> GeneratedQuestions,
     totalQuestions |-> Len(GeneratedQuestions), classId |-> c]

Answer(i, option) == [questionIndex |-> i, selectedOption |-> option]

FewAnswers == {<<Answer(0, "B"), Answer(1, "A")>>, <<Answer(1, "C")>>}

\* the state after teacher t1 has uploaded a lecture and generated its quiz
InitQuiz ==
    /\ \E c \in {NoClass, "c1"} :
        /\ lectures = {SetCompleted(NewLecture(LectureId, "t1", MinTextLength, c))}
        /\ quizzes = {GeneratedQuiz(c)}
    /\ results = {}
    /\ classes = InitClasses
    /\ enrollments = InitEnrollments
    /\ nextId = 1
    /\ now = 0
    /\ req = [r \in ReqIds |-> Idle]

QuizUsers == {StudentSession(s) : s \in Students} \cup {TeacherSession("t1")}

\* delivery: the take-quiz page, the questions, the explanation and debug
\* routes, and submissions, two requests at a time
NextDeliver ==
    \/ \E r \in ReqIds, user \in QuizUsers, c \in {NoClass} \cup ClassIds :
            TakeFindQuiz(r, user, QuizId, c)
    \/ \E r \in ReqIds : TakeFindEnrollment(r)
    \/ \E r \in ReqIds : TakeFindResult(r)
    \/ \E r \in ReqIds : TakeFindClass(r)
    \/ \E r \in ReqIds, user \in QuizUsers, q \in {QuizId, NoSuchQuiz} : GetQuiz(r, user, q)
    \/ \E r \in ReqIds, user \in QuizUsers, i \in {0, 2}, l \in {"A", "B"} :
            GetExplanation(r, user, QuizId, i, l)
    \/ \E r \in ReqIds, user \in QuizUsers : GetExplanationsStatus(r, user, QuizId)
    \/ \E r \in ReqIds, user \in QuizUsers : DebugQuiz(r, user, QuizId)
    \/ \E r \in ReqIds, user \in QuizUsers, i \in {0, 2} : DebugQuestion(r, user, QuizId, i)
    \/ \E r \in ReqIds, s \in Students :
            SubmitFindQuiz(r, StudentSession(s), QuizId, <<Answer(0, "B"), Answer(1, "A")>>)
    \/ \E r \in ReqIds : SubmitFindEnrollment(r)
    \/ \E r \in ReqIds : SubmitFindResult(r)
    \/ \E r \in ReqIds : SubmitCreateResult(r)
    \/ \E r \in ReqIds : SubmitFindClass(r)

SpecDeliver == InitQuiz /\ [][NextDeliver]_vars

\* submissions: two requests at a time, by either student or by a teacher,
\* while enrollments end and old results are swept
NextSubmit ==
    \/ \E r \in ReqIds, user \in {StudentSession(s) : s \in Students},
          q \in {QuizId}, a \in FewAnswers : SubmitFindQuiz(r, user, q, a)
    \/ \E r \in ReqIds : SubmitFindEnrollment(r)
    \/ \E r \in ReqIds : SubmitFindResult(r)
    \/ \E r \in ReqIds : SubmitCreateResult(r)
    \/ \E r \in ReqIds : SubmitFindClass(r)
    \/ \E s \in Students : RemoveStudent("t1", "c1", s)
    \/ CleanupOldQuizResults
    \/ \E days \in ClockSteps : AdvanceClock(days)

SpecSubmit == InitQuiz /\ [][NextSubmit]_vars

(***************************************************************************)
(* Scoring: one submission of every answer sequence of up to MaxAnswers    *)
(* answers, to quizzes with one or two questions                           *)
(***************************************************************************)
\* indexes below, inside and beyond the questions; an option may be absent
AnswerSet ==
    {Answer(i, o) : i \in {-1, 0, 1, 2}, o \in {"A", "B", "C", Undefined}}

ManyAnswers == SeqsUpTo(AnswerSet, MaxAnswers)

InitScore ==
    /\ \E json \in {<<RawQuestion("B", {AllExplained})>>,
                    <<RawQuestion("B", {AllExplained}), RawQuestion("C", {AllExplained})>>,
                    <<RawQuestion("C", {AllExplained}), RawQuestion("C", {AllExplained})>>} :
        quizzes = {[GeneratedQuiz(NoClass) EXCEPT
                        !.questions = ValidateReply(ArrayReply(json)).questions,
                        !.totalQuestions = Len(json)]}
    /\ lectures = {SetCompleted(NewLecture(LectureId, "t1", MinTextLength, NoClass))}
    /\ results = {}
    /\ classes = InitClasses
    /\ enrollments = InitEnrollments
    /\ nextId = 1
    /\ now = 0
    /\ req = [r \in ReqIds |-> Idle]

NextScore ==
    \/ /\ Free(1)
       /\ results = {}
       /\ \E a \in ManyAnswers : SubmitFindQuiz(1, StudentSession("s1"), QuizId, a)
    \/ SubmitFindResult(1)
    \/ SubmitCreateResult(1)

SpecScore == InitScore /\ [][NextScore]_vars

\* the answers of A that name a question of the quiz and select its correct option
CorrectAnswers(quiz, A) ==
    {n \in 1..Len(A) :
        /\ A[n].questionIndex >= 0
        /\ A[n].questionIndex < Len(quiz.questions)
        /\ A[n].selectedOption = quiz.questions[A[n].questionIndex + 1].correct_answer}

\* the fraction p equals score / total * 100
IsPercentage(p, score, total) ==
    IF total = 0 THEN p[1] = 0 /\ p[2] # 0
    ELSE p[2] # 0 /\ p[1] * total = score * 100 * p[2]

\* C3: the score recorded (and reported) by submit is the number of submitted
\* answers whose questionIndex is an index of the quiz and whose
\* selectedOption is that question's correct_answer; the percentage is
\* score / totalQuestions * 100, or 0 when totalQuestions is 0.
C3_ScoreCorrect ==
    \A r \in ReqIds : \A x \in results : \A quiz \in quizzes :
        (IsSubmit(req[r]) /\ x._id \in req[r].savedResult /\ quiz._id = x.quizId) =>
            /\ x.score = Cardinality(CorrectAnswers(quiz, req[r].answers))
            /\ x.totalQuestions = quiz.totalQuestions
            /\ IsPercentage(x.percentage, x.score, x.totalQuestions)
            /\ req[r].pc = "done" =>
                /\ req[r].resp.score = x.score
                /\ req[r].resp.percentage = x.percentage

\* a submission with an out-of-range answer, a wrong one and a right one
C3_Witness ==
    \E r \in ReqIds : \E x \in results :
        /\ IsSubmit(req[r]) /\ req[r].pc = "done" /\ x._id \in req[r].savedResult
        /\ x.totalQuestions = 2
        /\ x.score = 1
        /\ Len(req[r].answers) = 2
        /\ x.percentage = <<100, 2>>

(***************************************************************************)
(* Claims about delivery                                                   *)
(***************************************************************************)
Answered(r) == req[r].pc = "done" /\ req[r].resp.status = 200

\* C1: the questions response of GET /api/quiz/:quizId holds, for each
\* question, the question text and the options and nothing else.
C1_QuestionsSanitized ==
    \A r \in ReqIds :
        (IsGetQuiz(req[r]) /\ Answered(r)) =>
            \A quiz \in FindById(quizzes, req[r].quizId) :
                /\ Len(req[r].resp.quiz.questions) = Len(quiz.questions)
                /\ \A i \in 1..Len(quiz.questions) :
                    /\ DOMAIN req[r].resp.quiz.questions[i] = {"question", "options"}
                    /\ req[r].resp.quiz.questions[i].question = quiz.questions[i].question
                    /\ req[r].resp.quiz.questions[i].options = quiz.questions[i].options

C1_Witness ==
    \E r \in ReqIds :
        /\ IsGetQuiz(req[r]) /\ Answered(r)
        /\ req[r].user.userType = "student"
        /\ Len(req[r].resp.quiz.questions) = 2

\* the correct answers a response holds, as <<question index, label>>
DisclosedAnswers(request) ==
    IF request.pc # "done" \/ request.resp.status # 200 THEN {}
    ELSE IF request.kind = "submit"
    THEN {<<request.resp.questionDetails[n].questionIndex,
            request.resp.questionDetails[n].correctAnswer>> :
                n \in 1..Len(request.resp.questionDetails)}
    ELSE IF request.kind = "explain"
    THEN {<<request.questionIndex, request.resp.questionDetails.correctAnswer>>}
    ELSE IF request.kind = "debugQuestion" /\ "questionDebug" \in DOMAIN request.resp
    THEN {<<request.questionIndex, request.resp.questionDebug.correctAnswer>>}
    ELSE IF request.kind = "getQuiz"
    THEN {<<i - 1, request.resp.quiz.questions[i].correct_answer>> :
            i \in {j \in 1..Len(request.resp.quiz.questions) :
                    "correct_answer" \in DOMAIN request.resp.quiz.questions[j]}}
    ELSE {}

\* C2: a response to a student holds a correct answer of a quiz only if it is
\* the submit response and a QuizResult of that student for that quiz exists.
C2_AnswersOnlyAfterSubmit ==
    \A r \in ReqIds :
        (req[r].pc = "done" /\ req[r].user.userType = "student"
            /\ DisclosedAnswers(req[r]) # {}) =>
            /\ IsSubmit(req[r])
            /\ ExistingResult(req[r].quizId, req[r].user.userId) # {}

\* C10: a student with no active enrollment in the class of a class-scoped
\* quiz is refused (403) by the take-quiz page, whatever its classId query
\* parameter, and by the questions API; no QuizResult is created.
NotEnrolledInQuizClass(s, quizId) ==
    \E quiz \in FindById(quizzes, quizId) :
        quiz.classId # NoClass /\ ActiveEnrollment(s, quiz.classId) = {}

C10_NotEnrolledRefused ==
    \A r \in ReqIds :
        (req[r].pc = "done" /\ (IsTake(req[r]) \/ IsGetQuiz(req[r]))
            /\ req[r].user.userType = "student"
            /\ NotEnrolledInQuizClass(req[r].user.userId, req[r].quizId)) =>
            /\ req[r].resp.status = 403
            /\ ExistingResult(req[r].quizId, req[r].user.userId) = {}

(***************************************************************************)
(* Claims about submission                                                 *)
(***************************************************************************)
ResultIds == {x._id : x \in results}

\* C4: a submit request that arrives when a QuizResult of an earlier submit for
\* its (quiz, student) is stored, and for as long as that result stays stored,
\* creates no QuizResult and changes none; it is answered with the conflict
\* "You have already submitted this quiz" (or refused with 403 before the
\* duplicate check, when the student's enrollment has ended).
C4_State(r) ==
    (IsSubmit(req[r]) /\ req[r].resultAtIssue \cap ResultIds # {}) =>
        /\ req[r].savedResult = {}
        /\ req[r].pc \in {"findEnrollment", "findResult", "done"}
        /\ req[r].pc = "done" =>
            \/ req[r].resp = Failure(400, MsgAlreadySubmitted)
            \/ /\ req[r].resp = Failure(403, MsgNotEnrolledSubmit)
               /\ NotEnrolledInQuizClass(req[r].user.userId, req[r].quizId)

C4_Step(r) ==
    (StepOf(r) /\ IsSubmit(req'[r]) /\ req'[r].resultAtIssue \cap ResultIds # {}) =>
        results' = results

C4_DuplicateRejected ==
    [](\A r \in ReqIds : C4_State(r)) /\ [][\A r \in ReqIds : C4_Step(r)]_vars

C4_Witness ==
    \E r \in ReqIds :
        /\ IsSubmit(req[r]) /\ req[r].pc = "done"
        /\ req[r].resultAtIssue \cap ResultIds # {}
        /\ req[r].resp = Failure(400, MsgAlreadySubmitted)
        /\ Cardinality(results) = 1

\* C5: in every reachable state there is at most one QuizResult per
\* (quiz, student) pair.
C5_AtMostOneResultPerPair ==
    \A x, y \in results :
        (x.quizId = y.quizId /\ x.studentId = y.studentId) => x = y

\* the response gives the student the quiz to take: the take-quiz page, or
\* the questions of the quiz
ServedForTaking(request) ==
    /\ request.pc = "done"
    /\ request.resp.status = 200
    /\ \/ IsTake(request) /\ request.resp.view = "takeQuiz"
       \/ IsGetQuiz(request) /\ Len(request.resp.quiz.questions) > 0

\* C11: a take-quiz or quiz-questions request of a student that arrives when
\* a QuizResult of that student for the quiz exists is not answered with the
\* quiz for taking; the take-quiz page redirects to the already-taken outcome.
C11_NotServedAfterResult ==
    \A r \in ReqIds :
        ((IsTake(req[r]) \/ IsGetQuiz(req[r])) /\ req[r].pc = "done"
            /\ req[r].user.userType = "student"
            /\ req[r].resultAtIssue # {}) =>
            /\ ~ServedForTaking(req[r])
            /\ (IsTake(req[r]) /\ req[r].resp.status = 302) =>
                    req[r].resp = Redirect("/quiz-results?alreadyTaken=true")

(***************************************************************************)
(* DELETE /api/classes/:classId (archive)                                  *)
(***************************************************************************)
MsgTeachersOnly == "Access denied. Teachers only."
MsgClassNotFound == "Class not found or access denied."
MsgArchived == "Class archived successfully!"

ArchiveDone(user, classId, response) ==
    [kind |-> "archive", pc |-> "done", user |-> user, classId |-> classId,
     resp |-> response]

\* the role check; classCollection.findOne({_id, teacherId, isActive: true})
ArchiveFindClass(r, user, classId) ==
    /\ Free(r)
    /\ req' = [req EXCEPT ![r] =
            IF user.userType # "teacher"
            THEN ArchiveDone(user, classId, Failure(403, MsgTeachersOnly))
            ELSE IF classId \notin OwnedClasses(user.userId)
            THEN ArchiveDone(user, classId, Failure(404, MsgClassNotFound))
            ELSE [kind |-> "archive", pc |-> "updateClass", user |-> user,
                  classId |-> classId]]
    /\ UNCHANGED <<lectures, quizzes, results, classes, enrollments, nextId, now>>

\* the soft delete of the class
ArchiveUpdateClass(r) ==
    /\ req[r].kind = "archive" /\ req[r].pc = "updateClass"
    /\ classes' = {IF c._id = req[r].classId THEN [c EXCEPT !.isActive = FALSE] ELSE c :
                    c \in classes}
    /\ req' = [req EXCEPT ![r] = [req[r] EXCEPT !.pc = "updateStudents"]]
    /\ UNCHANGED <<lectures, quizzes, results, enrollments, nextId, now>>

\* classStudentCollection.updateMany({classId}, {isActive: false}); the response
ArchiveUpdateStudents(r) ==
    /\ req[r].kind = "archive" /\ req[r].pc = "updateStudents"
    /\ enrollments' = {IF e.classId = req[r].classId THEN [e EXCEPT !.isActive = FALSE]
                       ELSE e : e \in enrollments}
    /\ req' = [req EXCEPT ![r] =
            ArchiveDone(req[r].user, req[r].classId,
                        [status |-> 200, success |-> TRUE, message |-> MsgArchived])]
    /\ UNCHANGED <<lectures, quizzes, results, classes, nextId, now>>

(***************************************************************************)
(* Enrollment: the quiz is delivered and submitted while students are      *)
(* removed from the class and the class is archived                        *)
(***************************************************************************)
NextEnroll ==
    \/ \E r \in ReqIds, s \in Students : TakeFindQuiz(r, StudentSession(s), QuizId, NoClass)
    \/ \E r \in ReqIds : TakeFindEnrollment(r)
    \/ \E r \in ReqIds : TakeFindResult(r)
    \/ \E r \in ReqIds : TakeFindClass(r)
    \/ \E r \in ReqIds, s \in Students :
            SubmitFindQuiz(r, StudentSession(s), QuizId, <<Answer(0, "B"), Answer(1, "A")>>)
    \/ \E r \in ReqIds : SubmitFindEnrollment(r)
    \/ \E r \in ReqIds : SubmitFindResult(r)
    \/ \E r \in ReqIds : SubmitCreateResult(r)
    \/ \E r \in ReqIds : SubmitFindClass(r)
    \/ \E s \in Students : RemoveStudent("t1", "c1", s)
    \/ \E r \in ReqIds, user \in QuizUsers : ArchiveFindClass(r, user, "c1")
    \/ \E r \in ReqIds : ArchiveUpdateClass(r)
    \/ \E r \in ReqIds : ArchiveUpdateStudents(r)

SpecEnroll == InitQuiz /\ [][NextEnroll]_vars

\* the student holds an enrollment of the class that is active
HoldsActiveEnrollment(s, c) ==
    \E e \in enrollments : e.studentId = s /\ e.classId = c /\ e.isActive

\* the quiz read by request r belongs to a class that student s is not
\* actively enrolled in
LacksEnrollment(r) ==
    \E quiz \in req[r].quiz :
        quiz.classId # NoClass /\ ~HoldsActiveEnrollment(req[r].user.userId, quiz.classId)

\* C12: when the enrollment check of a submit request for a class-scoped quiz
\* runs and the student holds no active enrollment in the quiz's class, the
\* request is answered 403 "not enrolled" by that step, which creates no
\* QuizResult; a request answered so has created none.
C12_Step(r) ==
    (StepOf(r) /\ IsSubmit(req[r]) /\ req[r].pc = "findEnrollment" /\ LacksEnrollment(r)) =>
        /\ req'[r].pc = "done"
        /\ req'[r].resp = Failure(403, MsgNotEnrolledSubmit)
        /\ req'[r].savedResult = {}
        /\ results' = results

C12_State ==
    \A r \in ReqIds :
        (IsSubmit(req[r]) /\ req[r].pc = "done"
            /\ req[r].resp = Failure(403, MsgNotEnrolledSubmit)) =>
            req[r].savedResult = {}

C12_NotEnrolledSubmitRefused ==
    [](C12_State) /\ [][\A r \in ReqIds : C12_Step(r)]_vars

\* the quiz page was delivered to s1, whose enrollment then ended, and the
\* submission of s1 was refused
C12_Witness ==
    \E r, k \in ReqIds :
        /\ IsTake(req[r]) /\ req[r].pc = "done" /\ req[r].resp.status = 200
        /\ req[r].user = StudentSession("s1")
        /\ IsSubmit(req[k]) /\ req[k].pc = "done"
        /\ req[k].user = StudentSession("s1")
        /\ req[k].resp = Failure(403, MsgNotEnrolledSubmit)
        /\ ExistingResult(QuizId, "s1") = {}

(***************************************************************************)
(* Claims about ownership of a lecture                                     *)
(***************************************************************************)
\* the requester is the teacher who uploaded the lecture
IsOwner(user, lectureId) ==
    \E d \in lectures :
        d._id = lectureId /\ user.userType = "teacher" /\ d.professorId = user.userId

\* C13: a generate request for an existing lecture by a requester who is not
\* the teacher owning it (another teacher, or a student) is answered 403,
\* has not called the model and has created no quiz.
C13_OnlyOwnerGenerates ==
    \A r \in ReqIds :
        (IsGenerate(req[r])
            /\ FindById(lectures, req[r].lectureId) # {}
            /\ ~IsOwner(req[r].user, req[r].lectureId)) =>
            /\ ~req[r].modelCalled
            /\ req[r].savedQuiz = {}
            /\ req[r].pc \in {"findQuiz", "done"}
            /\ req[r].pc = "done" => req[r].resp = Failure(403, MsgGenerateDenied)

(***************************************************************************)
(* POST /delete_lecture/:id                                                *)
(***************************************************************************)
MsgDeleteDenied == "Access denied. You can only delete your own lectures."
MsgDeleted == "Lecture deleted successfully"

\* the handler's local variables; owner: professorId of the lecture found
DeleteRequest(user, lectureId, found) ==
    [kind |-> "delete", pc |-> "deleteQuizzes", user |-> user, lectureId |-> lectureId,
     owner |-> {d.professorId : d \in found}]

DeleteDone(request, response) ==
    [kind |-> "delete", pc |-> "done", user |-> request.user,
     lectureId |-> request.lectureId, owner |-> request.owner, resp |-> response]

IsDelete(request) == request.kind = "delete"

\* lectureCollection.findById, then the not-found and ownership checks
DelFindLecture(r, user, lectureId) ==
    /\ Free(r)
    /\ LET found == FindById(lectures, lectureId)
           started == DeleteRequest(user, lectureId, found)
       IN req' = [req EXCEPT ![r] =
                IF found = {}
                THEN DeleteDone(started, Failure(404, MsgLectureNotFound))
                ELSE IF OwnershipDenied(user, TheDoc(found))
                THEN DeleteDone(started, Failure(403, MsgDeleteDenied))
                ELSE started]
    /\ UNCHANGED <<lectures, quizzes, results, classes, enrollments, nextId, now>>

\* the filter {lectureId: lectureId} of the two deleteMany calls
QuizzesOfLecture(lectureId) == {q \in quizzes : q.lectureId = lectureId}

ResultsOfLectureNone(lectureId) == {}

ResultsOfLecture(lectureId) == {x \in results : x.lectureId = lectureId}

DelDeleteQuizzes(r) ==
    /\ IsDelete(req[r]) /\ req[r].pc = "deleteQuizzes"
    /\ quizzes' = quizzes \ QuizzesOfLecture(req[r].lectureId)
    /\ req' = [req EXCEPT ![r] = [req[r] EXCEPT !.pc = "deleteResults"]]
    /\ UNCHANGED <<lectures, results, classes, enrollments, nextId, now>>

DelDeleteResults(r) ==
    /\ IsDelete(req[r]) /\ req[r].pc = "deleteResults"
    /\ results' = results \ ResultsOfLecture(req[r].lectureId)
    /\ req' = [req EXCEPT ![r] = [req[r] EXCEPT !.pc = "deleteLecture"]]
    /\ UNCHANGED <<lectures, quizzes, classes, enrollments, nextId, now>>

\* lectureCollection.findByIdAndDelete; the response
DelDeleteLecture(r) ==
    /\ IsDelete(req[r]) /\ req[r].pc = "deleteLecture"
    /\ lectures' = lectures \ FindById(lectures, req[r].lectureId)
    /\ req' = [req EXCEPT ![r] =
            DeleteDone(req[r], [status |-> 200, success |-> TRUE, message |-> MsgDeleted])]
    /\ UNCHANGED <<quizzes, results, classes, enrollments, nextId, now>>

(***************************************************************************)
(* Deletion: two lectures with their quizzes; requests run one at a time   *)
(***************************************************************************)
OtherLectureId == "L2"
OtherQuizId == "Q2"

\* the state after t1 and t2 have each uploaded a lecture and generated its quiz
InitDelete ==
    /\ lectures = {SetCompleted(NewLecture(LectureId, "t1", MinTextLength, NoClass)),
                   SetCompleted(NewLecture(OtherLectureId, "t2", MinTextLength, NoClass))}
    /\ quizzes = {GeneratedQuiz(NoClass),
                  [GeneratedQuiz(NoClass) EXCEPT !._id = OtherQuizId,
                                                 !.lectureId = OtherLectureId]}
    /\ results = {}
    /\ classes = InitClasses
    /\ enrollments = InitEnrollments
    /\ nextId = 1
    /\ now = 0
    /\ req = [r \in ReqIds |-> Idle]

DeleteUsers == {TeacherSession(t) : t \in Teachers} \cup {StudentSession("s1")}

NextDelete ==
    \/ \E s \in Students, q \in {QuizId, OtherQuizId} :
            SubmitFindQuiz(1, StudentSession(s), q, <<Answer(0, "B"), Answer(1, "A")>>)
    \/ SubmitFindResult(1)
    \/ SubmitCreateResult(1)
    \/ \E user \in DeleteUsers, l \in {LectureId, OtherLectureId, NoSuchLecture} :
            DelFindLecture(1, user, l)
    \/ DelDeleteQuizzes(1)
    \/ DelDeleteResults(1)
    \/ DelDeleteLecture(1)

SpecDelete == InitDelete /\ [][NextDelete]_vars

\* C14: a delete-lecture request for an existing lecture by a requester who
\* is not the teacher owning it (another teacher, or a student) is answered
\* 403 and gets no further: it removes no lecture, quiz or QuizResult.
C14_OnlyOwnerDeletes ==
    \A r \in ReqIds :
        (IsDelete(req[r]) /\ req[r].owner # {}
            /\ ~(req[r].user.userType = "teacher" /\ req[r].user.userId \in req[r].owner)) =>
            /\ req[r].pc = "done"
            /\ req[r].resp = Failure(403, MsgDeleteDenied)

\* the documents of a collection that belong to other lectures
OtherLectures(coll, lectureId) == {d \in coll : d._id # lectureId}
OfOtherLectures(coll, lectureId) == {d \in coll : d.lectureId # lectureId}

\* C15: when a delete-lecture request that ran with no other request in
\* progress reports success, the lecture is gone and no Quiz and no
\* QuizResult has its lectureId; none of its steps changes a lecture, quiz
\* or result of another lecture.
C15_Step(r) ==
    (StepOf(r) /\ IsDelete(req'[r])) =>
        /\ OtherLectures(lectures', req'[r].lectureId)
                = OtherLectures(lectures, req'[r].lectureId)
        /\ OfOtherLectures(quizzes', req'[r].lectureId)
                = OfOtherLectures(quizzes, req'[r].lectureId)
        /\ OfOtherLectures(results', req'[r].lectureId)
                = OfOtherLectures(results, req'[r].lectureId)
        /\ (req'[r].pc = "done" /\ req'[r].resp.status = 200) =>
            /\ \A d \in lectures' : d._id # req'[r].lectureId
            /\ \A q \in quizzes' : q.lectureId # req'[r].lectureId
            /\ \A x \in results' : x.lectureId # req'[r].lectureId

C15_DeleteCascades == [][\A r \in ReqIds : C15_Step(r)]_vars

\* t1 has deleted its lecture, which had a quiz and results; the other
\* lecture still has its quiz and a result
C15_Witness ==
    \E r \in ReqIds :
        /\ IsDelete(req[r]) /\ req[r].pc = "done" /\ req[r].resp.status = 200
        /\ req[r].user = TeacherSession("t1")
        /\ Cardinality(results) < nextId - 1
        /\ FindById(lectures, LectureId) = {}
        /\ FindById(lectures, OtherLectureId) # {}
        /\ FindById(quizzes, OtherQuizId) # {}
        /\ \E x \in results : x.lectureId = OtherLectureId

(***************************************************************************)
(* Claims about the lecture's processingStatus                            *)
(***************************************************************************)
\* the moves pending -> processing -> completed | failed, and the retry
\* failed -> processing
StatusMove(from, to) ==
    \/ from = to
    \/ from \in {"pending", "failed"} /\ to = "processing"
    \/ from = "processing" /\ to \in {"completed", "failed"}

\* C16: every change of a lecture's processingStatus is a move of
\* pending -> processing -> completed | failed (processing is entered only
\* from pending or failed, and completed is never left).
C16_StatusStateMachine ==
    [][\A d \in lectures : \A e \in lectures' :
            d._id = e._id => StatusMove(d.processingStatus, e.processingStatus)]_vars

(***************************************************************************)
(* POST /generate_quiz/:id when a database write after the model call      *)
(* fails: the catch (saveError) block                                      *)
(***************************************************************************)
MsgSaveFailed == "Failed to save enhanced quiz to database: "
DbError == "connection lost"

\* quizCollection.create throws: nothing is stored
GenCreateQuizFails(r) ==
    /\ req[r].kind = "generate" /\ req[r].pc = "createQuiz"
    /\ req' = [req EXCEPT ![r] = [req[r] EXCEPT !.pc = "failSave", !.error = DbError]]
    /\ UNCHANGED <<lectures, quizzes, results, classes, enrollments, nextId, now>>

\* the update to completed throws: the quiz created before it stays stored
GenSetCompletedFails(r) ==
    /\ req[r].kind = "generate" /\ req[r].pc = "setCompleted"
    /\ req' = [req EXCEPT ![r] = [req[r] EXCEPT !.pc = "failSave", !.error = DbError]]
    /\ UNCHANGED <<lectures, quizzes, results, classes, enrollments, nextId, now>>

\* catch (saveError): the update to failed, then the 500 response
GenFailSave(r) ==
    /\ req[r].kind = "generate" /\ req[r].pc = "failSave"
    /\ LET Change(d) == SetFailed(d, "Enhanced database save error: " \o req[r].error)
       IN lectures' = UpdateById(lectures, req[r].lectureId, Change)
    /\ req' = [req EXCEPT ![r] =
            GenerateDone(req[r], Failure(500, MsgSaveFailed \o req[r].error))]
    /\ UNCHANGED <<quizzes, results, classes, enrollments, nextId, now>>

\* generation, one request at a time, with failing database writes
NextGenFail ==
    \/ \E user \in GenUsers : GenFindLecture(1, user, LectureId)
    \/ GenFindQuiz(1)
    \/ GenSetProcessing(1)
    \/ GenFailShort(1)
    \/ AwaitingModel(1) /\ \E reply \in FewReplies : GenModelReply(1, reply)
    \/ GenFailParse(1)
    \/ GenFailApi(1)
    \/ GenCreateQuiz(1)
    \/ GenCreateQuizFails(1)
    \/ GenSetCompleted(1)
    \/ GenSetCompletedFails(1)
    \/ GenFailSave(1)

SpecGenFail == InitGen /\ [][NextGenFail]_vars

\* the responses of a generate request that got past the precondition checks
\* and failed
GenerationFailures ==
    {Failure(400, MsgTextTooShort), Failure(500, MsgParseFailed),
     Failure(429, MsgQuotaExceeded), Failure(500, MsgGenerateFailed),
     Failure(500, MsgSaveFailed \o DbError)}

\* C17: the step in which a generate request answers with a failure of
\* generation (short text, reply that does not parse or validate, model
\* error, failed database write) leaves the lecture failed with an error
\* string recorded, and no quiz created by the request is stored.
C17_Step(r) ==
    (StepOf(r) /\ IsGenerate(req'[r]) /\ req'[r].pc = "done"
        /\ req'[r].resp \in GenerationFailures) =>
        /\ \A d \in FindById(lectures', req'[r].lectureId) :
                /\ d.processingStatus = "failed"
                /\ d.quizGenerationError # Undefined
        /\ \A q \in quizzes' : q._id \notin req'[r].savedQuiz

C17_FailureMarksLecture == [][\A r \in ReqIds : C17_Step(r)]_vars

(***************************************************************************)
(* Claims about the bounds of a score                                      *)
(***************************************************************************)
\* C18: every stored QuizResult has 0 <= score <= totalQuestions and
\* 0 <= percentage <= 100.
C18_ScoreWithinBounds ==
    \A x \in results :
        /\ 0 <= x.score
        /\ x.score <= x.totalQuestions
        /\ 0 <= x.percentage[1]
        /\ x.percentage[2] > 0
        /\ x.percentage[1] <= 100 * x.percentage[2]

(***************************************************************************)
(* Explanation lookup: one persisted quiz of one question, drawn from the  *)
(* quizzes that generation stores; lookups for every label                 *)
(***************************************************************************)
\* replies whose validation leaves stored texts, a fallback text, and a
\* correct-answer explanation that is a blank
ExplainedQuestions ==
    {[RawQuestion(c, {e}) EXCEPT !.correctAnswerExplanation = x] :
        c \in {"B", "C"},
        e \in {AllExplained, [AllExplained EXCEPT !["A"] = " "],
               [AllExplained EXCEPT !["A"] = Undefined, !["D"] = ""]},
        x \in {CorrectText, " "}}

InitExplain ==
    /\ \E q \in ExplainedQuestions :
        quizzes = {[GeneratedQuiz(NoClass) EXCEPT
                        !.questions = ValidateReply(ArrayReply(<<q>>)).questions,
                        !.totalQuestions = 1]}
    /\ lectures = {SetCompleted(NewLecture(LectureId, "t1", MinTextLength, NoClass))}
    /\ results = {}
    /\ classes = InitClasses
    /\ enrollments = InitEnrollments
    /\ nextId = 1
    /\ now = 0
    /\ req = [r \in ReqIds |-> Idle]

NextExplain ==
    \/ \E r \in ReqIds, user \in {StudentSession("s1"), TeacherSession("t1")},
          q \in {QuizId, NoSuchQuiz}, i \in {0, 1}, l \in Labels \cup {"E"} :
            GetExplanation(r, user, q, i, l)
    \/ \E r \in ReqIds : GetExplanationsStatus(r, StudentSession("s1"), QuizId)

SpecExplain == InitExplain /\ [][NextExplain]_vars

\* a stored text that is not blank
IsText(e) == e \notin {Undefined, "", " "}

\* the generic fallback naming the correct option
GenericFallback(q) ==
    "The correct answer is " \o q.correct_answer \o ") " \o q.options[q.correct_answer]

\* C19: an explanation lookup by a student for a valid question index of a
\* persisted quiz and a label is answered with a non-empty text: the stored
\* remediation of the label (followed by the correct-answer explanation when
\* there is one) when that entry is not blank, else the generic fallback
\* that names the correct option; a wrong label of a generated quiz gets its
\* stored remediation and the correct label the fallback.  The lookup is one
\* read: its step changes no collection.
C19_State ==
    \A r \in ReqIds : \A quiz \in quizzes :
        (IsExplain(req[r]) /\ req[r].user.userType = "student"
            /\ quiz._id = req[r].quizId
            /\ req[r].questionIndex \in 0..(Len(quiz.questions) - 1)
            /\ req[r].wrongAnswer \in Labels) =>
            LET q == quiz.questions[req[r].questionIndex + 1]
                e == q.explanations[req[r].wrongAnswer]
                x == q.correctAnswerExplanation
                why == "\n\nWhy " \o q.correct_answer \o " is correct: " \o x
            IN  /\ req[r].resp.status = 200
                /\ req[r].resp.explanation # ""
                /\ IsText(e) =>
                    /\ req[r].resp.explanationType = "detailed"
                    /\ req[r].resp.explanation = (IF IsText(x) THEN e \o why ELSE e)
                /\ ~IsText(e) =>
                    /\ req[r].resp.explanationType = "basic"
                    /\ req[r].resp.explanation =
                        (IF IsText(x) THEN GenericFallback(q) \o ".\n\n" \o x
                         ELSE GenericFallback(q)
                            \o ". Please review the lecture material for detailed understanding.")
                /\ IsText(e) <=> req[r].wrongAnswer # q.correct_answer

C19_Step(r) ==
    (StepOf(r) /\ IsExplain(req'[r])) =>
        /\ req'[r].pc = "done"
        /\ UNCHANGED <<lectures, quizzes, results, classes, enrollments>>

C19_ExplanationLookup ==
    [](C19_State) /\ [][\A r \in ReqIds : C19_Step(r)]_vars

\* a lookup for a wrong label answered with the fallback text that generation
\* stored, and a lookup for the correct label answered with the generic text
C19_Witness ==
    \E r, k \in ReqIds :
        /\ IsExplain(req[r]) /\ req[r].resp.status = 200
        /\ req[r].wrongAnswer = "A"
        /\ req[r].resp.explanationType = "detailed"
        /\ \E c \in Labels : req[r].resp.explanation =
                FallbackExplanation(c) \o "\n\nWhy " \o c \o " is correct: " \o CorrectText
        /\ IsExplain(req[k]) /\ req[k].resp.status = 200
        /\ req[k].wrongAnswer = req[k].resp.questionDetails.correctAnswer
        /\ req[k].resp.explanationType = "basic"

(***************************************************************************)
(* Retention: one student takes and submits the quiz, one request at a     *)
(* time, while days pass and the sweep runs                                *)
(***************************************************************************)
NextRetention ==
    \/ \E c \in {NoClass} \cup ClassIds : TakeFindQuiz(1, StudentSession("s1"), QuizId, c)
    \/ TakeFindEnrollment(1)
    \/ TakeFindResult(1)
    \/ TakeFindClass(1)
    \/ \E a \in FewAnswers : SubmitFindQuiz(1, StudentSession("s1"), QuizId, a)
    \/ SubmitFindEnrollment(1)
    \/ SubmitFindResult(1)
    \/ SubmitCreateResult(1)
    \/ SubmitFindClass(1)
    \/ CleanupOldQuizResults
    \/ \E days \in ClockSteps : AdvanceClock(days)

SpecRetention == InitQuiz /\ [][NextRetention]_vars

\* the number of submissions of (QuizId, s1) accepted so far: every _id
\* handed out under SpecRetention is that of a QuizResult of this pair
AcceptedSubmissions == nextId - 1

\* C20: at most one submission of a (quiz, student) pair is ever accepted,
\* and once one has been accepted the quiz is not served to the student
\* for taking, also after the retention sweep has run.  (Requests run one
\* at a time here: a take-quiz request that has been served arrived after
\* every submission accepted so far.)
C20_OneAttemptEver ==
    /\ AcceptedSubmissions <= 1
    /\ \A r \in ReqIds :
        (IsTake(req[r]) /\ ServedForTaking(req[r])) => AcceptedSubmissions = 0

(***************************************************************************)
(* Deletion interleaved with generation and submission for the same        *)
(* lecture                                                                 *)
(***************************************************************************)
NextRace ==
    \/ \E r \in ReqIds : GenFindLecture(r, TeacherSession("t1"), LectureId)
    \/ \E r \in ReqIds : GenFindQuiz(r)
    \/ \E r \in ReqIds : GenSetProcessing(r)
    \/ \E r \in ReqIds : GenFailShort(r)
    \/ \E r \in ReqIds : AwaitingModel(r) /\ \E reply \in FewReplies : GenModelReply(r, reply)
    \/ \E r \in ReqIds : GenFailParse(r)
    \/ \E r \in ReqIds : GenFailApi(r)
    \/ \E r \in ReqIds : GenCreateQuiz(r)
    \/ \E r \in ReqIds : GenSetCompleted(r)
    \/ \E r \in ReqIds, q \in quizzes :
            SubmitFindQuiz(r, StudentSession("s1"), q._id, <<Answer(0, "B"), Answer(1, "A")>>)
    \/ \E r \in ReqIds : SubmitFindEnrollment(r)
    \/ \E r \in ReqIds : SubmitFindResult(r)
    \/ \E r \in ReqIds : SubmitCreateResult(r)
    \/ \E r \in ReqIds : SubmitFindClass(r)
    \/ \E r \in ReqIds : DelFindLecture(r, TeacherSession("t1"), LectureId)
    \/ \E r \in ReqIds : DelDeleteQuizzes(r)
    \/ \E r \in ReqIds : DelDeleteResults(r)
    \/ \E r \in ReqIds : DelDeleteLecture(r)

SpecRace == InitGen /\ [][NextRace]_vars

\* C21: every Quiz and every QuizResult refers to a lecture that exists,
\* also when a delete-lecture request interleaves with a generate or a
\* submit request for the same lecture.
C21_NoOrphans ==
    /\ \A q \in quizzes : FindById(lectures, q.lectureId) # {}
    /\ \A x \in results : FindById(lectures, x.lectureId) # {}

(***************************************************************************)
(* Database calls that throw                                               *)
(***************************************************************************)
MsgDeleteFailed == "Failed to delete lecture"
MsgGenerateError == "Failed to generate enhanced quiz: "

\* POST /delete_lecture/:id: lectureCollection.findById throws; catch (error)
DelFindLectureFails(r, user, lectureId) ==
    /\ Free(r)
    /\ req' = [req EXCEPT ![r] =
            DeleteDone(DeleteRequest(user, lectureId, {}), Failure(500, MsgDeleteFailed))]
    /\ UNCHANGED <<lectures, quizzes, results, classes, enrollments, nextId, now>>

\* one of the three calls of the cascade throws: what ran before it stays
\* done, what comes after it does not run; catch (error)
DelCascadeFails(r) ==
    /\ IsDelete(req[r])
    /\ req[r].pc \in {"deleteQuizzes", "deleteResults", "deleteLecture"}
    /\ req' = [req EXCEPT ![r] = DeleteDone(req[r], Failure(500, MsgDeleteFailed))]
    /\ UNCHANGED <<lectures, quizzes, results, classes, enrollments, nextId, now>>

\* POST /generate_quiz/:id: lectureCollection.findById throws, to catch (error)
GenFindLectureFails(r, user, lectureId) ==
    /\ Free(r)
    /\ req' = [req EXCEPT ![r] =
            [GenerateRequest(user, lectureId, {}) EXCEPT
                !.pc = "failOuter", !.error = DbError]]
    /\ UNCHANGED <<lectures, quizzes, results, classes, enrollments, nextId, now>>

\* a call outside the inner try throws (the existing-quiz lookup, the update
\* to processing, the update for a short text), or the update in
\* catch (apiError) does: to catch (error)
GenThrowsToOuter(r) ==
    /\ IsGenerate(req[r])
    /\ req[r].pc \in {"findQuiz", "setProcessing", "failShort", "failApi"}
    /\ req' = [req EXCEPT ![r] = [req[r] EXCEPT !.pc = "failOuter", !.error = DbError]]
    /\ UNCHANGED <<lectures, quizzes, results, classes, enrollments, nextId, now>>

\* the update in catch (parseError) or in catch (saveError) throws: both
\* blocks are inside the inner try, to catch (apiError)
GenThrowsToApi(r) ==
    /\ IsGenerate(req[r])
    /\ req[r].pc \in {"failParse", "failSave"}
    /\ req' = [req EXCEPT ![r] = [req[r] EXCEPT !.pc = "failApi", !.error = DbError]]
    /\ UNCHANGED <<lectures, quizzes, results, classes, enrollments, nextId, now>>

\* catch (error): the update to failed, then the 500 response
GenFailOuter(r) ==
    /\ IsGenerate(req[r]) /\ req[r].pc = "failOuter"
    /\ LET Change(d) == SetFailed(d, req[r].error)
       IN lectures' = UpdateById(lectures, req[r].lectureId, Change)
    /\ req' = [req EXCEPT ![r] =
            GenerateDone(req[r], Failure(500, MsgGenerateError \o req[r].error))]
    /\ UNCHANGED <<quizzes, results, classes, enrollments, nextId, now>>

\* the update in catch (error) throws: nothing catches it, the handler's
\* promise is rejected and the handler has sent no response
GenFailOuterFails(r) ==
    /\ IsGenerate(req[r]) /\ req[r].pc = "failOuter"
    /\ req' = [req EXCEPT ![r] =
            [kind |-> "generate", pc |-> "rejected", user |-> req[r].user,
             lectureId |-> req[r].lectureId, quizAtIssue |-> req[r].quizAtIssue,
             modelCalled |-> req[r].modelCalled, savedQuiz |-> req[r].savedQuiz]]
    /\ UNCHANGED <<lectures, quizzes, results, classes, enrollments, nextId, now>>

\* the steps of generate request r after it has arrived, each database call
\* and the model call returning or throwing
GenStep(r) ==
    \/ GenFindQuiz(r)
    \/ GenSetProcessing(r)
    \/ GenFailShort(r)
    \/ AwaitingModel(r) /\ \E reply \in FewReplies : GenModelReply(r, reply)
    \/ GenFailParse(r)
    \/ GenFailApi(r)
    \/ GenCreateQuiz(r)
    \/ GenCreateQuizFails(r)
    \/ GenSetCompleted(r)
    \/ GenSetCompletedFails(r)
    \/ GenFailSave(r)
    \/ GenThrowsToOuter(r)
    \/ GenThrowsToApi(r)
    \/ GenFailOuter(r)
    \/ GenFailOuterFails(r)

\* the steps of delete request r after it has arrived
DelStep(r) ==
    \/ DelDeleteQuizzes(r)
    \/ DelDeleteResults(r)
    \/ DelDeleteLecture(r)
    \/ DelCascadeFails(r)

\* the number of quizzes created in a behaviour with failing database calls
MaxQuizzes == 2

\* generate and delete requests of the owner for one lecture, one request at
\* a time, where any database call may throw
NextDbFail ==
    \/ nextId <= MaxQuizzes /\ GenFindLecture(1, TeacherSession("t1"), LectureId)
    \/ nextId <= MaxQuizzes /\ GenFindLectureFails(1, TeacherSession("t1"), LectureId)
    \/ GenStep(1)
    \/ DelFindLecture(1, TeacherSession("t1"), LectureId)
    \/ DelFindLectureFails(1, TeacherSession("t1"), LectureId)
    \/ DelStep(1)

SpecDbFail == InitGen /\ [][NextDbFail]_vars

\* C22: a lecture with quizGenerated = true has a persisted Quiz, whichever
\* database call fails, also after a delete-lecture request that failed
\* part-way through its cascade.
C22_FlagImpliesQuiz ==
    \A d \in lectures :
        (d.quizGenerated
            /\ \A r \in ReqIds : ~(IsDelete(req[r]) /\ req[r].pc # "done")) =>
            ExistingQuiz(d._id) # {}

(***************************************************************************)
(* Claims about answers that name no question                              *)
(***************************************************************************)
\* the positions of the answers of A whose questionIndex names a question
InRange(quiz, A) ==
    {n \in 1..Len(A) : A[n].questionIndex >= 0 /\ A[n].questionIndex < Len(quiz.questions)}

\* C23: an answer whose questionIndex is not an index of the stored quiz
\* changes neither the score nor the total and gets no per-question record;
\* the recorded totalQuestions is the quiz's number of questions, whatever
\* the number of answers submitted.
C23_UnmatchedSkipped ==
    \A r \in ReqIds : \A x \in results : \A quiz \in quizzes :
        (IsSubmit(req[r]) /\ x._id \in req[r].savedResult /\ quiz._id = x.quizId) =>
            /\ x.totalQuestions = Len(quiz.questions)
            /\ Len(x.answers) = Cardinality(InRange(quiz, req[r].answers))
            /\ \A k \in 1..Len(x.answers) :
                    /\ x.answers[k].questionIndex >= 0
                    /\ x.answers[k].questionIndex < Len(quiz.questions)
            /\ x.score = Cardinality(CorrectAnswers(quiz, req[r].answers))
            /\ x.score <= Cardinality(InRange(quiz, req[r].answers))
            /\ req[r].pc = "done" =>
                /\ req[r].resp.totalQuestions = Len(quiz.questions)
                /\ Len(req[r].resp.questionDetails) = Len(x.answers)

\* two answers to a quiz of two questions: one that names no question and a
\* right one; the other question is left unanswered
C23_Witness ==
    \E r \in ReqIds : \E x \in results :
        /\ IsSubmit(req[r]) /\ req[r].pc = "done" /\ x._id \in req[r].savedResult
        /\ Len(req[r].answers) = 2
        /\ \E n \in 1..2 : req[r].answers[n].questionIndex \notin {0, 1}
        /\ x.totalQuestions = 2
        /\ Len(x.answers) = 1
        /\ x.score = 1
        /\ req[r].resp.totalQuestions = 2
        /\ Len(req[r].resp.questionDetails) = 1

(***************************************************************************)
(* Claims about the response of a generate request                         *)
(***************************************************************************)
\* C24: every generate request ends with one response, the success or a
\* failure {success: false, message}, whichever of the model call and the
\* database calls fails: its handler never returns without having answered.
C24_AlwaysAnswers ==
    \A r \in ReqIds :
        IsGenerate(req[r]) =>
            /\ req[r].pc # "rejected"
            /\ req[r].pc = "done" =>
                /\ req[r].resp.success \in BOOLEAN
                /\ ~req[r].resp.success => req[r].resp.message # Undefined

(***************************************************************************)
(* Claims about quota errors of the external model                         *)
(***************************************************************************)
\* the model call of the request failed with the quota error
QuotaFailure(request) ==
    IsGenerate(request) /\ request.pc = "failApi" /\ request.error = "quota exceeded"

\* the lecture is as a quota failure leaves it
FailedOnQuota(d) ==
    /\ d.processingStatus = "failed"
    /\ d.quizGenerationError = "Enhanced AI API Error: quota exceeded"

\* C25: a generate request whose model call fails with a quota error is
\* answered with the retry-later failure (429), not the generic one, and
\* leaves the lecture failed with no quiz stored; a generate request of the
\* owner that comes after it passes the precondition checks.
C25_Step(r) ==
    /\ (StepOf(r) /\ QuotaFailure(req[r])) =>
            /\ req'[r].pc = "done"
            /\ req'[r].resp = Failure(429, MsgQuotaExceeded)
            /\ req'[r].resp # Failure(500, MsgGenerateFailed)
            /\ \A d \in FindById(lectures', req[r].lectureId) : FailedOnQuota(d)
            /\ \A q \in quizzes' : q.lectureId # req[r].lectureId
    /\ (StepOf(r) /\ IsGenerate(req'[r])
            /\ IsOwner(req'[r].user, req'[r].lectureId)
            /\ \E d \in FindById(lectures, req'[r].lectureId) : FailedOnQuota(d)
            /\ (Free(r) \/ req[r].pc = "findQuiz")) =>
            req'[r].pc \in {"findQuiz", "setProcessing"}

C25_QuotaRetryLater == [][\A r \in ReqIds : C25_Step(r)]_vars

\* a generate request has completed the lecture that an earlier request left
\* failed on a quota error (the update to completed keeps the error string)
C25_Witness ==
    /\ \E d \in lectures :
        /\ d._id = LectureId
        /\ d.processingStatus = "completed"
        /\ d.quizGenerated
        /\ d.quizGenerationError = "Enhanced AI API Error: quota exceeded"
    /\ ExistingQuiz(LectureId) # {}
    /\ \E r \in ReqIds :
        /\ IsGenerate(req[r]) /\ req[r].pc = "done"
        /\ req[r].resp.status = 200
        /\ req[r].user = TeacherSession("t1")

(***************************************************************************)
(* Claims about validation failures                                        *)
(***************************************************************************)
\* the request has found the text too short, or the model's reply invalid
ValidationFailure(request) ==
    IsGenerate(request) /\ request.pc \in {"failShort", "failParse"}

\* C26: a generate request that fails validation (text too short; a reply
\* that does not parse, is no array or is empty; a question missing a field
\* or with a label outside A..D) is answered with a failure of class 4xx,
\* records the error on the lecture, and ends there: nothing calls the model
\* for it again.
C26_Step(r) ==
    (StepOf(r) /\ ValidationFailure(req[r])) =>
        /\ req'[r].pc = "done"
        /\ ~req'[r].resp.success
        /\ req'[r].resp.status \in 400..499
        /\ \A d \in FindById(lectures', req[r].lectureId) :
                d.processingStatus = "failed" /\ d.quizGenerationError # Undefined

C26_ValidationFailureIs4xx == [][\A r \in ReqIds : C26_Step(r)]_vars

(***************************************************************************)
(* Claims about the lecture of a stored quiz                               *)
(***************************************************************************)
\* a generate or delete request is being handled
InProgress(r) == (IsGenerate(req[r]) \/ IsDelete(req[r])) /\ ~Free(r)

\* C27: whenever no generate or delete request is in progress, a lecture
\* that has a stored Quiz has quizGenerated = true and processingStatus
\* completed, also after two interleaved generate requests of which one
\* fails and one succeeds.
C27_QuizImpliesCompleted ==
    (\A r \in ReqIds : ~InProgress(r)) =>
        \A q \in quizzes : \A d \in FindById(lectures, q.lectureId) :
            d.quizGenerated /\ d.processingStatus = "completed"

(***************************************************************************)
(* Progress of generation.  Every call a handler awaits returns or throws: *)
(* a request that has arrived keeps taking its steps.  Nothing makes a new *)
(* request arrive.                                                         *)
(***************************************************************************)
SpecLive ==
    /\ InitGen
    /\ [][NextDbFail]_vars
    /\ WF_vars(GenStep(1))
    /\ WF_vars(DelStep(1))

Processing == \E d \in lectures : d.processingStatus = "processing"

Settled == \A d \in lectures : d.processingStatus \in {"completed", "failed"}

\* C28: a lecture that a generate request has put in processing eventually
\* is completed or failed, provided the model call and every database call
\* return or throw.
C28_ProcessingEnds == Processing ~> Settled

(***************************************************************************)
(* POST /api/classes/:classId/students                                     *)
(***************************************************************************)
\* classStudentCollection.countDocuments({classId, isActive: true})
ActiveStudents(coll, c) == Cardinality({e \in coll : e.classId = c /\ e.isActive})

\* the enrollments after student s is added to class c: an inactive
\* enrollment is reactivated, a missing one is created
WithStudent(s, c) ==
    IF \E e \in enrollments : e.classId = c /\ e.studentId = s
    THEN {IF e.classId = c /\ e.studentId = s THEN [e EXCEPT !.isActive = TRUE] ELSE e :
            e \in enrollments}
    ELSE enrollments \cup {Enrollment(s, c)}

\* a request that passes the checks (the teacher owns the active class, the
\* student exists and is not actively enrolled); after the enrollment is
\* written the active enrollments are counted and stored as studentCount
AddStudent(t, c, s) ==
    /\ c \in OwnedClasses(t)
    /\ ActiveEnrollment(s, c) = {}
    /\ enrollments' = WithStudent(s, c)
    /\ LET Change(d) == [d EXCEPT !.studentCount = ActiveStudents(WithStudent(s, c), c)]
       IN classes' = UpdateById(classes, c, Change)
    /\ UNCHANGED <<lectures, quizzes, results, nextId, now, req>>

(***************************************************************************)
(* The roster of two classes: students are added and removed, and classes  *)
(* archived, one request at a time                                         *)
(***************************************************************************)
\* the classes as POST /api/classes creates them
InitRoster ==
    /\ lectures = {}
    /\ quizzes = {}
    /\ results = {}
    /\ classes = {[_id |-> c._id, teacherId |-> c.teacherId, name |-> c.name,
                   isActive |-> TRUE, studentCount |-> 0] : c \in InitClasses}
    /\ enrollments = {}
    /\ nextId = 1
    /\ now = 0
    /\ req = [r \in ReqIds |-> Idle]

NextRoster ==
    \/ \E t \in Teachers, c \in ClassIds, s \in Students : Free(1) /\ AddStudent(t, c, s)
    \/ \E t \in Teachers, c \in ClassIds, s \in Students : Free(1) /\ RemoveStudent(t, c, s)
    \/ \E user \in QuizUsers, c \in ClassIds : ArchiveFindClass(1, user, c)
    \/ ArchiveUpdateClass(1)
    \/ ArchiveUpdateStudents(1)

SpecRoster == InitRoster /\ [][NextRoster]_vars

\* C29: with no request in progress, the studentCount stored on a class is
\* the number of active enrollments of the class.
C29_StudentCountMatches ==
    (\A r \in ReqIds : Free(r)) =>
        \A c \in classes : c.studentCount = ActiveStudents(enrollments, c._id)

(***************************************************************************)
(* POST /api/classes and PUT /api/classes/:classId                         *)
(***************************************************************************)
MsgNameRequired == "Class name and subject are required."
MsgClassExists == "You already have a class with this name."
MsgClassCreated == "Class created successfully!"
MsgClassUpdated == "Class updated successfully!"

\* classCollection.findOne({teacherId, name, isActive: true})
ClassNamed(t, name) == {c \in classes : c.teacherId = t /\ c.name = name /\ c.isActive}

\* the handler's local variables; the subject is taken as given
ClassRequest(kind, pc, user, classId, name) ==
    [kind |-> kind, pc |-> pc, user |-> user, classId |-> classId, name |-> name]

ClassDone(kind, user, classId, name, response) ==
    [kind |-> kind, pc |-> "done", user |-> user, classId |-> classId, name |-> name,
     resp |-> response]

\* the role check, the required fields, and the lookup of an active class of
\* the teacher with the trimmed name
CreateFindClass(r, user, name) ==
    /\ Free(r)
    /\ req' = [req EXCEPT ![r] =
            IF user.userType # "teacher"
            THEN ClassDone("createClass", user, {}, name, Failure(403, MsgTeachersOnly))
            ELSE IF Falsy(name)
            THEN ClassDone("createClass", user, {}, name, Failure(400, MsgNameRequired))
            ELSE IF ClassNamed(user.userId, Trim(name)) # {}
            THEN ClassDone("createClass", user, {}, name, Failure(400, MsgClassExists))
            ELSE ClassRequest("createClass", "create", user, {}, name)]
    /\ UNCHANGED <<lectures, quizzes, results, classes, enrollments, nextId, now>>

\* the class document of classCollection.create; a new class is active
NewClass(id, t, name) ==
    [_id |-> id, teacherId |-> t, name |-> Trim(name), isActive |-> TRUE,
     studentCount |-> 0]

CreateClass(r) ==
    /\ req[r].kind = "createClass" /\ req[r].pc = "create"
    /\ classes' = classes \cup {NewClass(nextId, req[r].user.userId, req[r].name)}
    /\ nextId' = nextId + 1
    /\ req' = [req EXCEPT ![r] =
            ClassDone("createClass", req[r].user, {nextId}, req[r].name,
                      [status |-> 200, success |-> TRUE, message |-> MsgClassCreated])]
    /\ UNCHANGED <<lectures, quizzes, results, enrollments, now>>

\* the role check, the required fields, and the lookup of the teacher's
\* active class
UpdateFindClass(r, user, classId, name) ==
    /\ Free(r)
    /\ req' = [req EXCEPT ![r] =
            IF user.userType # "teacher"
            THEN ClassDone("updateClass", user, {classId}, name,
                           Failure(403, MsgTeachersOnly))
            ELSE IF Falsy(name)
            THEN ClassDone("updateClass", user, {classId}, name,
                           Failure(400, MsgNameRequired))
            ELSE IF classId \notin OwnedClasses(user.userId)
            THEN ClassDone("updateClass", user, {classId}, name,
                           Failure(404, MsgClassNotFound))
            ELSE ClassRequest("updateClass", "update", user, {classId}, name)]
    /\ UNCHANGED <<lectures, quizzes, results, classes, enrollments, nextId, now>>

\* classCollection.findByIdAndUpdate(classId, {name: name.trim(), ...})
UpdateClass(r) ==
    /\ req[r].kind = "updateClass" /\ req[r].pc = "update"
    /\ LET Change(d) == [d EXCEPT !.name = Trim(req[r].name)]
       IN classes' = UpdateById(classes, TheDoc(req[r].classId), Change)
    /\ req' = [req EXCEPT ![r] =
            ClassDone("updateClass", req[r].user, req[r].classId, req[r].name,
                      [status |-> 200, success |-> TRUE, message |-> MsgClassUpdated])]
    /\ UNCHANGED <<lectures, quizzes, results, enrollments, nextId, now>>

(***************************************************************************)
(* Classes are created, renamed and archived; a create request may         *)
(* interleave with another request                                         *)
(***************************************************************************)
\* the number of create requests accepted one after the other
MaxClasses == 2

ClassNames == {"Algebra", "Biology", Undefined}

ClassUsers == {TeacherSession(t) : t \in Teachers} \cup {StudentSession("s1")}

\* no class has been created
InitClass ==
    /\ lectures = {}
    /\ quizzes = {}
    /\ results = {}
    /\ classes = {}
    /\ enrollments = {}
    /\ nextId = 1
    /\ now = 0
    /\ req = [r \in ReqIds |-> Idle]

NextClass ==
    \/ \E r \in ReqIds, user \in ClassUsers, name \in ClassNames :
            nextId <= MaxClasses /\ CreateFindClass(r, user, name)
    \/ \E r \in ReqIds : CreateClass(r)
    \/ \E t \in Teachers, c \in classes, name \in ClassNames :
            UpdateFindClass(1, TeacherSession(t), c._id, name)
    \/ UpdateClass(1)
    \/ \E t \in Teachers, c \in classes : ArchiveFindClass(1, TeacherSession(t), c._id)
    \/ ArchiveUpdateClass(1)
    \/ ArchiveUpdateStudents(1)

SpecClass == InitClass /\ [][NextClass]_vars

\* C30: no teacher has two active classes with the same name, also when two
\* create requests interleave.
C30_UniqueClassNames ==
    \A a \in classes : \A b \in classes :
        (a._id # b._id /\ a.teacherId = b.teacherId /\ a.isActive /\ b.isActive) =>
            a.name # b.name

====
